---- MODULE Spec2Model ----
(***************************************************************************)
(* Verification model of the TA-SQL verification and scoring harness.      *)
(*                                                                         *)
(*   Part I   evaluation/evaluation_ves.py: the worker pool that runs the  *)
(*            (predicted, gold) SQL pairs under a timeout, collects the    *)
(*            results through a callback and sorts them by sql_idx.        *)
(*   Part II  verify_verieql_cases.py: results_equal, the comparison of    *)
(*            two normalized result sets.                                  *)
(*   Part III verify_verieql_cases.py: run_sqlite_case, the loop of main   *)
(*            over the cases, and write_results.                           *)
(*   Part IV  verify_verieql_cases.py: parse_block_text and the three      *)
(*            sanitizer passes over the setup text.                        *)
(*   Part V   verify_verieql_cases.py: main from the input csv through     *)
(*            read_cases_from_block_csv to the override of the records.    *)
(*                                                                         *)
(* Each part has its own specification over the shared variables; the      *)
(* variables of the other parts stay at their idle values.                 *)
(***************************************************************************)
EXTENDS Integers, Sequences, FiniteSets, TLC

\* ------------------------------------------------------------------ bounds
MaxTasks == 3        \* largest batch handed to run_sqls_parallel
MaxCpus == 2         \* largest pool size (--num_cpus)
MaxInterrupts == 1   \* operator interrupts delivered during one run
MaxRows == 2         \* most rows of a result set handed to results_equal
MaxCases == 2        \* most cases read from the input of verify_verieql_cases
MaxPieces == 5       \* most pieces a text handed to parse_block_text is made of
MaxSqlPieces == 4    \* most pieces a text handed to the sanitizer passes is made of
MaxRecords == 3      \* most records of the input csv of verify_verieql_cases
MaxIds == 2          \* largest question_id and largest bound_size of a record

VARIABLES
    \* Part I: evaluation_ves.py
    n,            \* len(sqls): the number of query pairs of the batch
    num_cpus,     \* processes of mp.Pool
    behav,        \* behav[i]: what func_timeout does for pair i
    mainpc,       \* position of the main process
    next_i,       \* loop variable i of run_sqls_parallel
    taskqueue,    \* tasks applied and not yet taken by a worker
    workers,      \* workers[w]: [idx] the worker runs, or Idle
    outqueue,     \* messages of the workers not yet handled by the pool
    cache,        \* jobs whose result the pool still waits for
    exec_result,  \* the global list result_callback appends to
    ret,          \* ret[i]: what execute_model returned for task i
    started,      \* started[i]: how often task i was handed to a worker
    lost,         \* tasks whose worker process ended without sending a result
    hit,          \* tasks that met a KeyboardInterrupt inside execute_model
    arrival,      \* exec_result as it was when sort_results was called
    interrupts,   \* KeyboardInterrupts delivered so far
    \* Part II: results_equal
    res1,             \* first normalized result: [columns, rows]
    res2,             \* second normalized result
    order_sensitive,  \* the keyword argument of results_equal
    cmppc,            \* "call" before results_equal has run, "returned" after
    verdict,          \* what results_equal returned
    \* Part III: run_sqlite_case and main
    cases,        \* the cases main has taken from read_cases_from_block_csv
    rpc,          \* position inside run_sqlite_case, "idle" between two calls
    con,          \* the connection of the call: [open, db]
    out,          \* the dict `out` of the call
    q1_res,           \* the local res1 of the call, once sql1 has succeeded
    q2_res,           \* the local res2 of the call, once sql2 has succeeded
    ran,          \* the queries the call has handed to con.execute
    results,      \* the list `results` of main
    csvrows,      \* the rows write_results handed to the csv writer
    \* Part I, scoring: compute_ex_by_diff
    diff_json,    \* the contents of the difficulty file, None without --diff_json_path
    score,        \* what compute_ex_by_diff returned or raised
    \* Part IV: parse_block_text and the sanitizer passes
    text,         \* the text handed to the function
    tpc,          \* "call" before the function has run, its name for the call after
    parsed,       \* what parse_block_text returned or raised
    sanitized,    \* the text after the passes of run_sqlite_case
    resanitized,  \* the sanitized text after the same passes once more
    \* Part V: main of verify_verieql_cases.py
    dataset,      \* the records of the input csv
    mcases,       \* what read_cases_from_block_csv returned
    mpc,          \* position of main
    mresults,     \* the list `results` of main: one outcome per case
    written,      \* the rows of the results csv, None while it is not written
    df_final,     \* the records of ATTACK_UPDATED.csv
    exitcode      \* the exit status of the process, -1 while it runs

poolvars == <<n, num_cpus, behav, mainpc, next_i, taskqueue, workers, outqueue,
              cache, exec_result, ret, started, lost, hit, arrival, interrupts>>

cmpvars == <<res1, res2, order_sensitive, cmppc, verdict>>

casevars == <<cases, rpc, con, out, q1_res, q2_res, ran, results, csvrows>>

scorevars == <<diff_json, score>>

textvars == <<text, tpc, parsed, sanitized, resanitized>>

mainvars == <<dataset, mcases, mpc, mresults, written, df_final, exitcode>>

vars == <<poolvars, cmpvars, casevars, scorevars, textvars, mainvars>>

\* Python's None and a value that is not None.
None == [some |-> FALSE]
Some(x) == [some |-> TRUE, val |-> x]

\* ===================================================================
\* Part I: evaluation/evaluation_ves.py
\* ===================================================================

Idle == -1
NotReturned == [kind |-> "none"]

\* What func_timeout(meta_time_out, iterated_execute_sql, ...) does for one
\* pair: it returns the flag iterated_execute_sql computed (1: the result sets
\* match, 0: they do not), raises FunctionTimedOut, or re-raises the exception
\* of the query (sqlite3.Error, ...).
FuncOutcomes == {"ex1", "ex0", "FunctionTimedOut", "Exception"}

\* execute_model with the two handlers of lines 42-45 missing: the timeout and
\* the query's exception leave execute_model.
execute_model_uncaught(idx, raised) ==
    IF raised = "KeyboardInterrupt"
    THEN [kind |-> "raise", exc |-> "SystemExit"]
    ELSE IF raised \in {"FunctionTimedOut", "Exception"}
    THEN [kind |-> "raise", exc |-> raised]
    ELSE [kind |-> "return", sql_idx |-> idx, ex |-> IF raised = "ex1" THEN 1 ELSE 0]

\* execute_model with the handler of line 42 missing: the timeout leaves it.
execute_model_timeout_uncaught(idx, raised) ==
    IF raised = "KeyboardInterrupt"
    THEN [kind |-> "raise", exc |-> "SystemExit"]
    ELSE IF raised = "FunctionTimedOut"
    THEN [kind |-> "raise", exc |-> "FunctionTimedOut"]
    ELSE IF raised = "Exception"
    THEN [kind |-> "return", sql_idx |-> idx, ex |-> 0]
    ELSE [kind |-> "return", sql_idx |-> idx, ex |-> IF raised = "ex1" THEN 1 ELSE 0]

\* execute_model(predicted_sql, ground_truth, db_place, idx, meta_time_out):
\* `raised` is what the try block met.  KeyboardInterrupt leaves through
\* sys.exit(0), a SystemExit raised in the process that runs execute_model.
execute_model(idx, raised) ==
    IF raised = "KeyboardInterrupt"
    THEN [kind |-> "raise", exc |-> "SystemExit"]
    ELSE IF raised = "FunctionTimedOut"
    THEN [kind |-> "return", sql_idx |-> idx, ex |-> 0]
    ELSE IF raised = "Exception"
    THEN [kind |-> "return", sql_idx |-> idx, ex |-> 0]
    ELSE [kind |-> "return", sql_idx |-> idx, ex |-> IF raised = "ex1" THEN 1 ELSE 0]

\* A callback that keeps only the results with ex = 1.
result_callback_successes(list, result) ==
    IF result.ex = 0 THEN list ELSE Append(list, result)

\* result_callback(result): exec_result.append(result)
result_callback(list, result) == Append(list, result)

\* sorted(list_of_dicts, key=sql_idx): a stable insertion by key.
RECURSIVE InsertByIdx(_, _)
InsertByIdx(r, s) ==
    IF s = <<>> THEN <<r>>
    ELSE IF r.sql_idx < Head(s).sql_idx THEN <<r>> \o s
    ELSE <<Head(s)>> \o InsertByIdx(r, Tail(s))

\* sort_results that returns the list in the order of arrival.
sort_results_arrival(list_of_dicts) == list_of_dicts

RECURSIVE sort_results(_)
sort_results(list_of_dicts) ==
    IF list_of_dicts = <<>> THEN <<>>
    ELSE LET k == Len(list_of_dicts)
         IN InsertByIdx(list_of_dicts[k], sort_results(SubSeq(list_of_dicts, 1, k - 1)))

PoolInit ==
    /\ n \in 0..MaxTasks
    /\ num_cpus \in 1..MaxCpus
    /\ behav \in [0..(n - 1) -> FuncOutcomes]
    /\ mainpc = "submit"
    /\ next_i = 0
    /\ taskqueue = <<>>
    /\ workers = [w \in 1..num_cpus |-> Idle]
    /\ outqueue = <<>>
    /\ cache = {}
    /\ exec_result = <<>>
    /\ ret = [i \in 0..(n - 1) |-> NotReturned]
    /\ started = [i \in 0..(n - 1) |-> 0]
    /\ lost = {}
    /\ hit = {}
    /\ arrival = <<>>
    /\ interrupts = 0

\* The variables of Part I in the specifications of the other parts.
PoolUnused ==
    /\ n = 0
    /\ num_cpus = 1
    /\ behav = <<>>
    /\ mainpc = "unused"
    /\ next_i = 0
    /\ taskqueue = <<>>
    /\ workers = <<>>
    /\ outqueue = <<>>
    /\ cache = {}
    /\ exec_result = <<>>
    /\ ret = <<>>
    /\ started = <<>>
    /\ lost = {}
    /\ hit = {}
    /\ arrival = <<>>
    /\ interrupts = 0

\* The variables of the scoring step in the specifications of the other parts.
ScoreUnused ==
    /\ diff_json = None
    /\ score = [kind |-> "none"]

\* The variables of Part IV in the specifications of the other parts.
TextUnused ==
    /\ text = <<>>
    /\ tpc = "unused"
    /\ parsed = [kind |-> "none"]
    /\ sanitized = <<>>
    /\ resanitized = <<>>

\* The variables of Part V in the specifications of the other parts.
MainUnused ==
    /\ dataset = <<>>
    /\ mcases = <<>>
    /\ mpc = "unused"
    /\ mresults = <<>>
    /\ written = None
    /\ df_final = <<>>
    /\ exitcode = -1

\* The variables of Part III in the specifications of the other parts.
CaseUnused ==
    /\ cases = <<>>
    /\ rpc = "unused"
    /\ con = [open |-> FALSE, db |-> <<>>]
    /\ out = <<>>
    /\ q1_res = [some |-> FALSE]
    /\ q2_res = [some |-> FALSE]
    /\ ran = {}
    /\ results = <<>>
    /\ csvrows = <<>>

\* run_sqls_parallel, one turn of the for loop: pool.apply_async(execute_model,
\* args=(..., i, meta_time_out), callback=result_callback).
ApplyAsync ==
    /\ mainpc = "submit"
    /\ next_i < n
    /\ taskqueue' = Append(taskqueue, next_i)
    /\ cache' = cache \cup {next_i}
    /\ next_i' = next_i + 1
    /\ UNCHANGED <<cmpvars, casevars, textvars, mainvars, scorevars, n, num_cpus, behav, mainpc, workers, outqueue, exec_result,
                   ret, started, lost, hit, arrival, interrupts>>

\* pool.close(), after the loop.
PoolClose ==
    /\ mainpc = "submit"
    /\ next_i = n
    /\ mainpc' = "join"
    /\ UNCHANGED <<cmpvars, casevars, textvars, mainvars, scorevars, n, num_cpus, behav, next_i, taskqueue, workers, outqueue,
                   cache, exec_result, ret, started, lost, hit, arrival, interrupts>>

\* A pool process takes the next task from the queue.
WorkerTake(w) ==
    /\ mainpc \in {"submit", "join"}
    /\ workers[w] = Idle
    /\ taskqueue # <<>>
    /\ workers' = [workers EXCEPT ![w] = Head(taskqueue)]
    /\ taskqueue' = Tail(taskqueue)
    /\ started' = [started EXCEPT ![Head(taskqueue)] = @ + 1]
    /\ UNCHANGED <<cmpvars, casevars, textvars, mainvars, scorevars, n, num_cpus, behav, mainpc, next_i, outqueue, cache,
                   exec_result, ret, lost, hit, arrival, interrupts>>

\* The pool process after execute_model left with `r`: a returned value is sent
\* back as (True, value) and an Exception as (False, e).  SystemExit,
\* KeyboardInterrupt and FunctionTimedOut derive from BaseException, not from
\* Exception: one of them ends the process, which sends nothing, and the pool
\* starts a new process in its place.
WorkerLeaves(w, r) ==
    /\ workers' = [workers EXCEPT ![w] = Idle]
    /\ ret' = [ret EXCEPT ![workers[w]] = r]
    /\ outqueue' = IF r.kind = "return"
                   THEN Append(outqueue, [job |-> workers[w], ok |-> TRUE, sql_idx |-> r.sql_idx, ex |-> r.ex])
                   ELSE IF r.exc = "Exception"
                   THEN Append(outqueue, [job |-> workers[w], ok |-> FALSE, sql_idx |-> -1, ex |-> -1])
                   ELSE outqueue
    /\ lost' = IF r.kind = "raise" /\ r.exc # "Exception" THEN lost \cup {workers[w]} ELSE lost

\* A pool whose process puts a task that timed out or raised back on the
\* queue once instead of returning its result.
WorkerRun_retrying(w) ==
    /\ mainpc \in {"submit", "join"}
    /\ workers[w] # Idle
    /\ IF behav[workers[w]] \in {"FunctionTimedOut", "Exception"} /\ started[workers[w]] < 2
       THEN /\ workers' = [workers EXCEPT ![w] = Idle]
            /\ taskqueue' = Append(taskqueue, workers[w])
            /\ UNCHANGED <<ret, outqueue, lost>>
       ELSE /\ WorkerLeaves(w, execute_model(workers[w], behav[workers[w]]))
            /\ taskqueue' = taskqueue
    /\ UNCHANGED <<cmpvars, casevars, textvars, mainvars, scorevars, n, num_cpus, behav, mainpc, next_i, cache,
                   exec_result, started, hit, arrival, interrupts>>

\* The task of worker w runs to its end: func_timeout returns or raises.
WorkerRun(w) ==
    /\ mainpc \in {"submit", "join"}
    /\ workers[w] # Idle
    /\ WorkerLeaves(w, execute_model(workers[w], behav[workers[w]]))
    /\ UNCHANGED <<cmpvars, casevars, textvars, mainvars, scorevars, n, num_cpus, behav, mainpc, next_i, taskqueue, cache,
                   exec_result, started, hit, arrival, interrupts>>

\* The operator's interrupt reaches the process of worker w while it is inside
\* func_timeout: KeyboardInterrupt is raised in execute_model's try block.
WorkerInterrupt(w) ==
    /\ mainpc \in {"submit", "join"}
    /\ workers[w] # Idle
    /\ interrupts < MaxInterrupts
    /\ interrupts' = interrupts + 1
    /\ hit' = hit \cup {workers[w]}
    /\ WorkerLeaves(w, execute_model(workers[w], "KeyboardInterrupt"))
    /\ UNCHANGED <<cmpvars, casevars, textvars, mainvars, scorevars, n, num_cpus, behav, mainpc, next_i, taskqueue, cache,
                   exec_result, started, arrival>>

\* The pool's result handler in the main process: it drops the job from the
\* cache and, for a successful job, calls the callback.
HandleResult ==
    /\ mainpc \in {"submit", "join"}
    /\ outqueue # <<>>
    /\ LET m == Head(outqueue)
       IN /\ cache' = cache \ {m.job}
          /\ exec_result' = IF m.ok THEN result_callback(exec_result, [sql_idx |-> m.sql_idx, ex |-> m.ex])
                            ELSE exec_result
    /\ outqueue' = Tail(outqueue)
    /\ UNCHANGED <<cmpvars, casevars, textvars, mainvars, scorevars, n, num_cpus, behav, mainpc, next_i, taskqueue, workers, ret,
                   started, lost, hit, arrival, interrupts>>

\* A join that returns while jobs are still in the cache.
PoolJoin_not_waiting ==
    /\ mainpc = "join"
    /\ mainpc' = "sort"
    /\ UNCHANGED <<cmpvars, casevars, textvars, mainvars, scorevars, n, num_cpus, behav, next_i, taskqueue, workers, outqueue,
                   cache, exec_result, ret, started, lost, hit, arrival, interrupts>>

\* pool.join() returns once every job applied has left the cache.
PoolJoin ==
    /\ mainpc = "join"
    /\ cache = {}
    /\ mainpc' = "sort"
    /\ UNCHANGED <<cmpvars, casevars, textvars, mainvars, scorevars, n, num_cpus, behav, next_i, taskqueue, workers, outqueue,
                   cache, exec_result, ret, started, lost, hit, arrival, interrupts>>

\* __main__: exec_result = sort_results(exec_result)
SortResults ==
    /\ mainpc = "sort"
    /\ exec_result' = sort_results(exec_result)
    /\ arrival' = exec_result
    /\ mainpc' = "sorted"
    /\ UNCHANGED <<cmpvars, casevars, textvars, mainvars, scorevars, n, num_cpus, behav, next_i, taskqueue, workers, outqueue,
                   cache, ret, started, lost, hit, interrupts>>

\* The operator's interrupt reaches the main process inside run_sqls_parallel:
\* nothing there catches KeyboardInterrupt, the script ends and the pool is
\* torn down with it.
MainInterrupt ==
    /\ mainpc \in {"submit", "join"}
    /\ interrupts < MaxInterrupts
    /\ interrupts' = interrupts + 1
    /\ mainpc' = "aborted"
    /\ UNCHANGED <<cmpvars, casevars, textvars, mainvars, scorevars, n, num_cpus, behav, next_i, taskqueue, workers, outqueue,
                   cache, exec_result, ret, started, lost, hit, arrival>>

\* sum([result['ex'] for result in exec_results])
RECURSIVE SumEx(_)
SumEx(exec_results) ==
    IF exec_results = <<>> THEN 0
    ELSE Head(exec_results).ex + SumEx(Tail(exec_results))

\* An accuracy (correct_queries / num_queries) * 100, kept as the fraction
\* num / den; the int 0 of an empty band is 0 / 1.
Accuracy(correct_queries, num_queries) == [num |-> correct_queries * 100, den |-> num_queries]
ZeroAccuracy == [num |-> 0, den |-> 1]

\* compute_ex(exec_results): the division raises for an empty list.
compute_ex(exec_results) ==
    IF Len(exec_results) = 0
    THEN [kind |-> "raise", exc |-> "ZeroDivisionError"]
    ELSE [kind |-> "return", val |-> Accuracy(SumEx(exec_results), Len(exec_results))]

\* band_results without the test of the label: every band collects every result.
RECURSIVE band_results_unfiltered(_, _, _, _)
band_results_unfiltered(exec_results, contents, band, k) ==
    IF k = 0 THEN <<>>
    ELSE Append(band_results_unfiltered(exec_results, contents, band, k - 1), exec_results[k])

\* The list a band collects in the loop over the first k contents: the result
\* at the position of every content labelled with the band.
\* A loop that puts a result with any other label into every band.
RECURSIVE band_results_catch_all(_, _, _, _)
band_results_catch_all(exec_results, contents, band, k) ==
    IF k = 0 THEN <<>>
    ELSE IF contents[k] = band
            \/ (contents[k] \notin {"simple", "moderate", "challenging"} /\ k <= Len(exec_results))
    THEN Append(band_results_catch_all(exec_results, contents, band, k - 1), exec_results[k])
    ELSE band_results_catch_all(exec_results, contents, band, k - 1)

RECURSIVE band_results(_, _, _, _)
band_results(exec_results, contents, band, k) ==
    IF k = 0 THEN <<>>
    ELSE IF contents[k] = band
    THEN Append(band_results(exec_results, contents, band, k - 1), exec_results[k])
    ELSE band_results(exec_results, contents, band, k - 1)

Bands == {"simple", "moderate", "challenging"}

\* compute_ex(band) if band else 0
band_ex(results_of_band) ==
    IF results_of_band = <<>> THEN ZeroAccuracy ELSE compute_ex(results_of_band).val

\* compute_ex_by_diff(exec_results, diff_json_path); diff is None for an empty
\* path and the loaded contents otherwise.  exec_results[i] raises IndexError
\* for a labelled content past the end of the results.
compute_ex_by_diff(exec_results, diff) ==
    LET num_queries == Len(exec_results)
        all_ex == compute_ex(exec_results)
    IN IF ~diff.some
       THEN IF all_ex.kind = "raise" THEN all_ex
            ELSE [kind |-> "return",
                  simple_ex |-> all_ex.val, moderate_ex |-> all_ex.val,
                  challenging_ex |-> all_ex.val, all_ex |-> all_ex.val,
                  count_lists |-> <<num_queries, num_queries, num_queries, num_queries>>]
       ELSE LET contents == diff.val
                simple_results == band_results(exec_results, contents, "simple", Len(contents))
                moderate_results == band_results(exec_results, contents, "moderate", Len(contents))
                challenging_results == band_results(exec_results, contents, "challenging", Len(contents))
            IN IF \E i \in 1..Len(contents) : contents[i] \in Bands /\ i > num_queries
               THEN [kind |-> "raise", exc |-> "IndexError"]
               ELSE IF all_ex.kind = "raise" THEN all_ex
               ELSE [kind |-> "return",
                     simple_ex |-> band_ex(simple_results),
                     moderate_ex |-> band_ex(moderate_results),
                     challenging_ex |-> band_ex(challenging_results),
                     all_ex |-> all_ex.val,
                     count_lists |-> <<Len(simple_results), Len(moderate_results),
                                       Len(challenging_results), num_queries>>]

\* The difficulty files of the model: none, or one label per content, for as
\* many contents as there are queries, one fewer or one more.
DifficultyValues == Bands \cup {"other"}
DiffValues(queries) ==
    {None} \cup {Some(c) : c \in UNION {[1..k -> DifficultyValues] :
                                          k \in {queries - 1, queries, queries + 1} \cap Nat}}

ScoreInit ==
    /\ diff_json = None
    /\ score = NotReturned

\* __main__ after the sort: compute_ex_by_diff(exec_result, args.diff_json_path).
\* An exception leaves the script.
ComputeExByDiff ==
    /\ mainpc = "sorted"
    /\ \E d \in DiffValues(n) :
          /\ diff_json' = d
          /\ score' = compute_ex_by_diff(exec_result, d)
    /\ mainpc' = IF score'.kind = "return" THEN "scored" ELSE "crashed"
    /\ UNCHANGED <<cmpvars, casevars, textvars, mainvars, n, num_cpus, behav, next_i, taskqueue,
                   workers, outqueue, cache, exec_result, ret, started, lost, hit, arrival,
                   interrupts>>

PoolNext ==
    \/ ApplyAsync
    \/ PoolClose
    \/ \E w \in 1..num_cpus : WorkerTake(w)
    \/ \E w \in 1..num_cpus : WorkerRun(w)
    \/ \E w \in 1..num_cpus : WorkerInterrupt(w)
    \/ HandleResult
    \/ PoolJoin
    \/ SortResults
    \/ ComputeExByDiff
    \/ MainInterrupt

\* ===================================================================
\* Part II: verify_verieql_cases.py, results_equal
\* ===================================================================

\* A normalized cell (normalize_cell): None, an int, a float or a str.  A
\* float is written by the integer it equals (RealCell(1) is 1.0) and a str by the
\* number whose decimal digits it holds (TextCell(1) is '1').
NullCell == [t |-> "null", v |-> 0]
IntCell(v) == [t |-> "int", v |-> v]
RealCell(v) == [t |-> "real", v |-> v]
TextCell(v) == [t |-> "text", v |-> v]

CellValues == {NullCell, IntCell(1), IntCell(2), RealCell(1), TextCell(1)}

\* Python's == on two cells: numbers compare by value whatever their type, a
\* str equals only a str, None only None.
PyEq(a, b) ==
    IF a.t \in {"int", "real"} /\ b.t \in {"int", "real"} THEN a.v = b.v
    ELSE a.t = b.t /\ a.v = b.v

\* == on two tuples and on two lists: the same length and equal items.
PyTupleEq(r1, r2) ==
    /\ Len(r1) = Len(r2)
    /\ \A j \in 1..Len(r1) : PyEq(r1[j], r2[j])

PyListEq(rows1, rows2) ==
    /\ Len(rows1) = Len(rows2)
    /\ \A k \in 1..Len(rows1) : PyTupleEq(rows1[k], rows2[k])

\* json.dumps of one cell: null, 1, 1.0, "1".
JsonCell(c) ==
    IF c.t = "null" THEN "null"
    ELSE IF c.t = "int" THEN ToString(c.v)
    ELSE IF c.t = "real" THEN ToString(c.v) \o ".0"
    ELSE "\"" \o ToString(c.v) \o "\""

RECURSIVE JsonItems(_)
JsonItems(r) ==
    IF r = <<>> THEN ""
    ELSE IF Len(r) = 1 THEN JsonCell(r[1])
    ELSE JsonCell(r[1]) \o ", " \o JsonItems(Tail(r))

\* json.dumps(r, ensure_ascii=False, sort_keys=True) of a row: a tuple is
\* written as a JSON array.
json_dumps(r) == "[" \o JsonItems(r) \o "]"

\* as_bag with a set in place of the Counter: multiplicities are dropped.
as_bag_set(rows) ==
    [s \in {json_dumps(rows[k]) : k \in 1..Len(rows)} |-> 1]

\* as_bag(rows): Counter(json.dumps(r) for r in rows), the number of rows
\* behind each JSON text.
as_bag(rows) ==
    [s \in {json_dumps(rows[k]) : k \in 1..Len(rows)} |->
        Cardinality({k \in 1..Len(rows) : json_dumps(rows[k]) = s})]

\* results_equal that compares the row lists whatever the mode.
results_equal_listed(r1, r2, sensitive) ==
    IF r1.columns # r2.columns THEN FALSE
    ELSE PyListEq(r1.rows, r2.rows)

results_equal(r1, r2, sensitive) ==
    IF r1.columns # r2.columns THEN FALSE
    ELSE IF sensitive THEN PyListEq(r1.rows, r2.rows)
    ELSE as_bag(r1.rows) = as_bag(r2.rows)

\* The results compared: one column, named x or y, and up to MaxRows rows.
ColumnLists == {<<"x">>, <<"y">>}
RowValues == {<<c>> : c \in CellValues}
RowLists == UNION {[1..k -> RowValues] : k \in 0..MaxRows}
ResultValues == [columns : ColumnLists, rows : RowLists]

CmpInit ==
    /\ res1 \in ResultValues
    /\ res2 \in ResultValues
    /\ order_sensitive \in BOOLEAN
    /\ cmppc = "call"
    /\ verdict = FALSE
    /\ PoolUnused
    /\ CaseUnused
    /\ ScoreUnused
    /\ TextUnused
    /\ MainUnused

\* The variables of Part II in the specifications of the other parts.
CmpUnused ==
    /\ res1 = [columns |-> <<>>, rows |-> <<>>]
    /\ res2 = [columns |-> <<>>, rows |-> <<>>]
    /\ order_sensitive = FALSE
    /\ cmppc = "unused"
    /\ verdict = FALSE

ResultsEqual ==
    /\ cmppc = "call"
    /\ verdict' = results_equal(res1, res2, order_sensitive)
    /\ cmppc' = "returned"
    /\ UNCHANGED <<poolvars, scorevars, casevars, textvars, mainvars, res1, res2, order_sensitive>>

CmpNext == ResultsEqual

SpecCompare == CmpInit /\ [][CmpNext]_vars

\* ===================================================================
\* Part III: verify_verieql_cases.py, run_sqlite_case, main, write_results
\* ===================================================================

\* A database: the rows of each table it holds.  sqlite3.connect(":memory:")
\* opens a new one with no table.
EmptyDb == <<>>

\* A connection whose database is the one the process had open before, as a
\* named or shared-cache database would be.
sqlite3_connect_shared(previous) == [open |-> TRUE, db |-> previous.db]

\* con = sqlite3.connect(":memory:"): a private database, new and empty,
\* whatever connection the process had before.
sqlite3_connect(previous) == [open |-> TRUE, db |-> EmptyDb]

\* con.close().  The database of a ":memory:" connection goes with it: no
\* later step reads con.db of a closed connection.
con_close(c) == [c EXCEPT !.open = FALSE]

\* The statements of the model's SQL.
CreateTable(tbl) == [op |-> "create", tbl |-> tbl, val |-> 0]
InsertInto(tbl, val) == [op |-> "insert", tbl |-> tbl, val |-> val]
SelectFrom(tbl) == [op |-> "select", tbl |-> tbl, val |-> 0]
Malformed == [op |-> "malformed", tbl |-> "", val |-> 0]

\* One statement run by SQLite on database db: [ok, db, error, columns, rows].
\* columns is [d[0] for d in cursor.description or []]: a statement that is no
\* SELECT has no description.
SqliteStep(db, st) ==
    IF st.op = "malformed"
    THEN [ok |-> FALSE, db |-> db, error |-> "near \"x\": syntax error", columns |-> <<>>, rows |-> <<>>]
    ELSE IF st.op = "create"
    THEN IF st.tbl \in DOMAIN db
         THEN [ok |-> FALSE, db |-> db, error |-> "table " \o st.tbl \o " already exists", columns |-> <<>>, rows |-> <<>>]
         ELSE [ok |-> TRUE, db |-> db @@ (st.tbl :> <<>>), error |-> "", columns |-> <<>>, rows |-> <<>>]
    ELSE IF st.tbl \notin DOMAIN db
    THEN [ok |-> FALSE, db |-> db, error |-> "no such table: " \o st.tbl, columns |-> <<>>, rows |-> <<>>]
    ELSE IF st.op = "insert"
    THEN [ok |-> TRUE, db |-> [db EXCEPT ![st.tbl] = Append(@, <<IntCell(st.val)>>)], error |-> "",
          columns |-> <<>>, rows |-> <<>>]
    ELSE [ok |-> TRUE, db |-> db, error |-> "", columns |-> <<"x">>, rows |-> db[st.tbl]]

\* con.executescript(script): the statements run in order and the first that
\* fails raises; the ones before it have taken effect.
RECURSIVE executescript(_, _)
executescript(db, script) ==
    IF script = <<>> THEN [ok |-> TRUE, db |-> db, error |-> ""]
    ELSE LET step == SqliteStep(db, Head(script))
         IN IF step.ok THEN executescript(step.db, Tail(script))
            ELSE [ok |-> FALSE, db |-> step.db, error |-> step.error]

\* normalize_cell(x): None, int, float and str are kept, bytes are decoded.
normalize_cell(x) == IF x.t = "bytes" THEN TextCell(x.v) ELSE x

\* normalize_result(cursor, rows)
normalize_result(columns, rows) ==
    [columns |-> columns,
     rows |-> [k \in 1..Len(rows) |-> [j \in 1..Len(rows[k]) |-> normalize_cell(rows[k][j])]]]

\* The setup scripts, queries and cases of the model.
SetupValues ==
    { <<Malformed>>,
      <<CreateTable("t"), InsertInto("t", 1)>>,
      <<CreateTable("u"), InsertInto("u", 1), Malformed>> }

QueryValues == {SelectFrom("t"), SelectFrom("u"), InsertInto("t", 2), Malformed}

CaseValues == [setup_sql : SetupValues, sql1 : QueryValues, sql2 : QueryValues]

\* The dict `out` as run_sqlite_case creates it.
InitialOut(q1, q2, sensitive) ==
    [equal |-> "Error",
     q1_ok |-> FALSE, q2_ok |-> FALSE,
     q1_error |-> "", q2_error |-> "",
     q1_columns |-> None, q2_columns |-> None,
     q1_rowcount |-> None, q2_rowcount |-> None,
     q1_full |-> None, q2_full |-> None,
     generated_sql |-> q1, gold_sql |-> q2,
     order_sensitive |-> sensitive]

\* The case the running call was given: main appends a result only after the
\* call has returned.
Current == cases[Len(results) + 1]

CaseInit ==
    /\ order_sensitive \in BOOLEAN
    /\ cases = <<>>
    /\ rpc = "idle"
    /\ con = [open |-> FALSE, db |-> EmptyDb]
    /\ out = <<>>
    /\ q1_res = None
    /\ q2_res = None
    /\ ran = {}
    /\ results = <<>>
    /\ csvrows = <<>>
    /\ res1 = [columns |-> <<>>, rows |-> <<>>]
    /\ res2 = [columns |-> <<>>, rows |-> <<>>]
    /\ cmppc = "unused"
    /\ verdict = FALSE
    /\ PoolUnused
    /\ ScoreUnused
    /\ TextUnused
    /\ MainUnused

\* main, one turn of `for c in cases`: run_sqlite_case is called with the next
\* case, creates `out` and opens its connection.
CallRunSqliteCase(c) ==
    /\ rpc = "idle"
    /\ Len(cases) < MaxCases
    /\ cases' = Append(cases, c)
    /\ out' = InitialOut(c.sql1, c.sql2, order_sensitive)
    /\ con' = sqlite3_connect(con)
    /\ q1_res' = None
    /\ q2_res' = None
    /\ ran' = {}
    /\ rpc' = "setup"
    /\ UNCHANGED <<poolvars, scorevars, cmpvars, textvars, mainvars, results, csvrows>>

\* The handler of the first try block with nothing recorded.
setup_failed_unrecorded(o, e) == o

\* except Exception as e: out["q1_error"] = f"setup_error: {e}"
setup_failed(o, e) == [o EXCEPT !.q1_error = "setup_error: " \o e]

\* The first try block: the PRAGMAs, the three sanitizer passes and
\* con.executescript(setup_sql).  A failure is recorded in q1_error, the
\* connection is closed and `out` is returned.
RunSetup ==
    /\ rpc = "setup"
    /\ LET done == executescript(con.db, Current.setup_sql)
       IN IF done.ok
          THEN /\ con' = [con EXCEPT !.db = done.db]
               /\ out' = out
               /\ rpc' = "q1"
          ELSE /\ con' = con_close([con EXCEPT !.db = done.db])
               /\ out' = setup_failed(out, done.error)
               /\ rpc' = "return"
    /\ UNCHANGED <<poolvars, scorevars, cmpvars, textvars, mainvars, cases, q1_res, q2_res, ran, results, csvrows>>

\* The second try block: con.execute(q1), fetchall, normalize_result.
RunQuery1 ==
    /\ rpc = "q1"
    /\ LET cur == SqliteStep(con.db, Current.sql1)
           res == normalize_result(cur.columns, cur.rows)
       IN /\ con' = [con EXCEPT !.db = cur.db]
          /\ IF cur.ok
             THEN /\ out' = [out EXCEPT !.q1_ok = TRUE,
                                        !.q1_columns = Some(res.columns),
                                        !.q1_rowcount = Some(Len(res.rows)),
                                        !.q1_full = Some(res),
                                        !.generated_sql = Current.sql1]
                  /\ q1_res' = Some(res)
             ELSE /\ out' = [out EXCEPT !.q1_error = cur.error]
                  /\ q1_res' = q1_res
    /\ ran' = ran \cup {"sql1"}
    /\ rpc' = "q2"
    /\ UNCHANGED <<poolvars, scorevars, cmpvars, textvars, mainvars, cases, q2_res, results, csvrows>>

\* The third try block entered only after a successful sql1.
RunQuery2_after_success ==
    /\ rpc = "q2"
    /\ LET cur == SqliteStep(con.db, Current.sql2)
           res == normalize_result(cur.columns, cur.rows)
       IN IF ~out.q1_ok
          THEN con' = con /\ out' = out /\ q2_res' = q2_res /\ ran' = ran
          ELSE /\ con' = [con EXCEPT !.db = cur.db]
               /\ out' = IF cur.ok
                         THEN [out EXCEPT !.q2_ok = TRUE,
                                          !.q2_columns = Some(res.columns),
                                          !.q2_rowcount = Some(Len(res.rows)),
                                          !.q2_full = Some(res),
                                          !.gold_sql = Current.sql2]
                         ELSE [out EXCEPT !.q2_error = cur.error]
               /\ q2_res' = IF cur.ok THEN Some(res) ELSE q2_res
               /\ ran' = ran \cup {"sql2"}
    /\ rpc' = "compare"
    /\ UNCHANGED <<poolvars, scorevars, cmpvars, textvars, mainvars, cases, q1_res, results, csvrows>>

\* The third try block: con.execute(q2), fetchall, normalize_result.
RunQuery2 ==
    /\ rpc = "q2"
    /\ LET cur == SqliteStep(con.db, Current.sql2)
           res == normalize_result(cur.columns, cur.rows)
       IN /\ con' = [con EXCEPT !.db = cur.db]
          /\ IF cur.ok
             THEN /\ out' = [out EXCEPT !.q2_ok = TRUE,
                                        !.q2_columns = Some(res.columns),
                                        !.q2_rowcount = Some(Len(res.rows)),
                                        !.q2_full = Some(res),
                                        !.gold_sql = Current.sql2]
                  /\ q2_res' = Some(res)
             ELSE /\ out' = [out EXCEPT !.q2_error = cur.error]
                  /\ q2_res' = q2_res
    /\ ran' = ran \cup {"sql2"}
    /\ rpc' = "compare"
    /\ UNCHANGED <<poolvars, scorevars, cmpvars, textvars, mainvars, cases, q1_res, results, csvrows>>

\* The test `if out["q1_ok"] and out["q2_ok"]` with `or` in place of `and`.
BothOk_either(o) == o.q1_ok \/ o.q2_ok

\* if out["q1_ok"] and out["q2_ok"]
BothOk(o) == o.q1_ok /\ o.q2_ok

\* The final if of run_sqlite_case, con.close() and return out.  res1 and
\* res2 are bound whenever the test holds.
CompareAndClose ==
    /\ rpc = "compare"
    /\ out' = [out EXCEPT !.equal =
                  IF BothOk(out)
                  THEN IF q1_res.some /\ q2_res.some /\ results_equal(q1_res.val, q2_res.val, order_sensitive)
                       THEN "True" ELSE "False"
                  ELSE "Error"]
    /\ con' = con_close(con)
    /\ rpc' = "return"
    /\ UNCHANGED <<poolvars, scorevars, cmpvars, textvars, mainvars, cases, q1_res, q2_res, ran, results, csvrows>>

\* main after the call: res["question_id"], res["bound_size"],
\* res["generated_sql"], res["gold_sql"] are set and res is appended.
AppendResult ==
    /\ rpc = "return"
    /\ results' = Append(results, [out EXCEPT !.generated_sql = Current.sql1,
                                              !.gold_sql = Current.sql2])
    /\ rpc' = "idle"
    /\ UNCHANGED <<poolvars, scorevars, cmpvars, textvars, mainvars, cases, con, out, q1_res, q2_res, ran, csvrows>>

inline_max_rows == 100

\* json.dumps(full["rows"], ensure_ascii=False): a JSON array of the rows.
RECURSIVE JsonRowItems(_)
JsonRowItems(rows) ==
    IF rows = <<>> THEN ""
    ELSE IF Len(rows) = 1 THEN json_dumps(rows[1])
    ELSE json_dumps(rows[1]) \o ", " \o JsonRowItems(Tail(rows))

\* The value of a <side>_results column.
InlinedRows(full) ==
    IF full.some /\ Len(full.val.rows) <= inline_max_rows
    THEN "[" \o JsonRowItems(full.val.rows) \o "]"
    ELSE ""

\* write_results with every error column taken from the other side's key.
CsvRow_swapped(r) ==
    [equal |-> r.equal,
     generated_sql_error |-> r.q2_error, gold_sql_error |-> r.q1_error,
     generated_sql_ok |-> r.q1_ok, gold_sql_ok |-> r.q2_ok,
     generated_sql |-> r.generated_sql, gold_sql |-> r.gold_sql,
     generated_sql_columns |-> r.q1_columns, gold_sql_columns |-> r.q2_columns,
     generated_sql_results |-> InlinedRows(r.q1_full),
     gold_sql_results |-> InlinedRows(r.q2_full)]

\* write_results, the dict `row` built for one result.
CsvRow(r) ==
    [equal |-> r.equal,
     generated_sql_error |-> r.q1_error, gold_sql_error |-> r.q2_error,
     generated_sql_ok |-> r.q1_ok, gold_sql_ok |-> r.q2_ok,
     generated_sql |-> r.generated_sql, gold_sql |-> r.gold_sql,
     generated_sql_columns |-> r.q1_columns, gold_sql_columns |-> r.q2_columns,
     generated_sql_results |-> InlinedRows(r.q1_full),
     gold_sql_results |-> InlinedRows(r.q2_full)]

\* main after the loop: write_results(args.out, results).  main has left with
\* sys.exit(2) before the loop when there is no case.
WriteResults ==
    /\ rpc = "idle"
    /\ cases # <<>>
    /\ csvrows' = [k \in 1..Len(results) |-> CsvRow(results[k])]
    /\ rpc' = "written"
    /\ UNCHANGED <<poolvars, scorevars, cmpvars, textvars, mainvars, cases, con, out, q1_res, q2_res, ran, results>>

CaseNext ==
    \/ \E c \in CaseValues : CallRunSqliteCase(c)
    \/ RunSetup
    \/ RunQuery1
    \/ RunQuery2
    \/ CompareAndClose
    \/ AppendResult
    \/ WriteResults

SpecCase == CaseInit /\ [][CaseNext]_vars

\* ===================================================================
\* Part IV: verify_verieql_cases.py, parse_block_text and the sanitizer
\* ===================================================================

\* A text is the sequence of its characters.
Repeat(ch, k) == [i \in 1..k |-> ch]

SQL1_MARK == <<"-", "-", " ">> \o Repeat("-", 10) \o <<"s", "q", "l", "1">> \o Repeat("-", 12)
SQL2_MARK == <<"-", "-", " ">> \o Repeat("-", 10) \o <<"s", "q", "l", "2">> \o Repeat("-", 12)

\* The delimiter of block.split("~~~~~~~~~~~").
BlockDelimiter == Repeat("~", 11)

\* The characters str.strip() removes and str.splitlines() breaks at, among
\* the characters of the model.
Whitespace == {" ", "\n"}
LineBreak == "\n"

\* s.startswith(prefix), from position i of s.
StartsWithAt(s, i, prefix) ==
    /\ i + Len(prefix) - 1 <= Len(s)
    /\ \A k \in 1..Len(prefix) : s[i + k - 1] = prefix[k]

\* s.find(sub) + 1: the first position where sub occurs in s, 0 if none.
Find(s, sub) ==
    LET hits == {i \in 1..(Len(s) - Len(sub) + 1) : StartsWithAt(s, i, sub)}
    IN IF hits = {} THEN 0 ELSE CHOOSE i \in hits : \A j \in hits : i <= j

\* sub in s
Contains(s, sub) == Find(s, sub) # 0

\* s.strip()
strip(s) ==
    LET keep == {i \in 1..Len(s) : s[i] \notin Whitespace}
    IN IF keep = {} THEN <<>>
       ELSE SubSeq(s, CHOOSE i \in keep : \A j \in keep : i <= j,
                      CHOOSE i \in keep : \A j \in keep : i >= j)

\* s.split(sep): the pieces between the occurrences of sep, left to right.
RECURSIVE split(_, _)
split(s, sep) ==
    LET i == Find(s, sep)
    IN IF i = 0 THEN <<s>>
       ELSE <<SubSeq(s, 1, i - 1)>> \o split(SubSeq(s, i + Len(sep), Len(s)), sep)

\* s.split(sep, 1): one piece when sep does not occur, two when it does.
split_once(s, sep) ==
    LET i == Find(s, sep)
    IN IF i = 0 THEN <<s>>
       ELSE <<SubSeq(s, 1, i - 1), SubSeq(s, i + Len(sep), Len(s))>>

\* s.splitlines(): no line for the empty text, none after a final line break.
RECURSIVE splitlines(_)
splitlines(s) ==
    IF s = <<>> THEN <<>>
    ELSE LET i == Find(s, <<LineBreak>>)
         IN IF i = 0 THEN <<s>>
            ELSE <<SubSeq(s, 1, i - 1)>> \o splitlines(SubSeq(s, i + 1, Len(s)))

\* "\n".join(lines)
RECURSIVE join_lines(_)
join_lines(lines) ==
    IF lines = <<>> THEN <<>>
    ELSE IF Len(lines) = 1 THEN lines[1]
    ELSE lines[1] \o <<LineBreak>> \o join_lines(Tail(lines))

\* The loop of strip_leading_comment_lines: the lines from the first one
\* that does not start with "--" after stripping.
RECURSIVE drop_leading_comments(_)
drop_leading_comments(lines) ==
    IF lines = <<>> THEN <<>>
    ELSE IF StartsWithAt(strip(lines[1]), 1, <<"-", "-">>) THEN drop_leading_comments(Tail(lines))
    ELSE lines

strip_leading_comment_lines(s) ==
    strip(join_lines(drop_leading_comments(splitlines(strip(s)))))

\* chunks = [b.strip() for b in block.split("~~~~~~~~~~~") if b.strip()], and
\* [block.strip()] when that list is empty.
Chunks(block) ==
    LET pieces == split(block, BlockDelimiter)
        kept == SelectSeq([k \in 1..Len(pieces) |-> strip(pieces[k])], LAMBDA b : b # <<>>)
    IN IF kept = <<>> THEN <<strip(block)>> ELSE kept

\* if SQL1_MARK not in b or SQL2_MARK not in b
missing_marker(b) == ~Contains(b, SQL1_MARK) \/ ~Contains(b, SQL2_MARK)

\* The test of line 385 left out.
triple_complete_always(setup_sql, sql1, sql2) == TRUE

\* if setup_sql and sql1 and sql2
triple_complete(setup_sql, sql1, sql2) == setup_sql # <<>> /\ sql1 # <<>> /\ sql2 # <<>>

\* One turn of the loop of parse_block_text for chunk b: the triples it
\* appends, or the ValueError of unpacking a one-item list into two names.
parse_chunk(b) ==
    IF missing_marker(b) THEN [kind |-> "return", val |-> <<>>]
    ELSE LET first == split_once(b, SQL1_MARK)
         IN IF Len(first) # 2 THEN [kind |-> "raise", exc |-> "ValueError"]
            ELSE LET second == split_once(first[2], SQL2_MARK)
                 IN IF Len(second) # 2 THEN [kind |-> "raise", exc |-> "ValueError"]
                    ELSE LET setup_sql == strip(first[1])
                             sql1 == strip_leading_comment_lines(second[1])
                             sql2 == strip_leading_comment_lines(second[2])
                         IN [kind |-> "return",
                             val |-> IF triple_complete(setup_sql, sql1, sql2)
                                     THEN <<[setup_sql |-> setup_sql, sql1 |-> sql1, sql2 |-> sql2]>>
                                     ELSE <<>>]

\* The loop over the chunks: an exception ends it and leaves the function.
RECURSIVE parse_chunks(_)
parse_chunks(chunks) ==
    IF chunks = <<>> THEN [kind |-> "return", val |-> <<>>]
    ELSE LET head == parse_chunk(chunks[1])
         IN IF head.kind = "raise" THEN head
            ELSE LET rest == parse_chunks(Tail(chunks))
                 IN IF rest.kind = "raise" THEN rest
                    ELSE [kind |-> "return", val |-> head.val \o rest.val]

parse_block_text(block) == parse_chunks(Chunks(block))

\* The texts of the model: up to MaxPieces pieces, each a piece of query
\* text, a line break, a comment prefix, a marker or the block delimiter.
BlockPieces == {<<"q">>, <<LineBreak>>, <<"-", "-">>, SQL1_MARK, SQL2_MARK, BlockDelimiter}

RECURSIVE Concat(_)
Concat(pieces) == IF pieces = <<>> THEN <<>> ELSE Head(pieces) \o Concat(Tail(pieces))

BlockTexts == {Concat(ps) : ps \in UNION {[1..k -> BlockPieces] : k \in 0..MaxPieces}}

ParseInit ==
    /\ text \in BlockTexts
    /\ tpc = "call"
    /\ parsed = NotReturned
    /\ sanitized = <<>>
    /\ resanitized = <<>>
    /\ PoolUnused /\ ScoreUnused /\ CmpUnused /\ CaseUnused /\ MainUnused

ParseBlockText ==
    /\ tpc = "call"
    /\ parsed' = parse_block_text(text)
    /\ tpc' = "returned"
    /\ UNCHANGED <<poolvars, scorevars, cmpvars, casevars, mainvars, text, sanitized, resanitized>>

\* strip_leading_comment_lines called on the text as a query segment.
StripLeadingCommentLines ==
    /\ tpc = "call"
    /\ parsed' = [kind |-> "return", val |-> strip_leading_comment_lines(text)]
    /\ tpc' = "stripped"
    /\ UNCHANGED <<poolvars, scorevars, cmpvars, casevars, mainvars, text, sanitized, resanitized>>

ParseNext == ParseBlockText \/ StripLeadingCommentLines

SpecParse == ParseInit /\ [][ParseNext]_vars

\* ---- the sanitizer passes ----

\* The classes of the characters of the model: str.isalpha, str.isalnum, the
\* \w and \s of the regular expressions, and the upper case of a letter for
\* re.IGNORECASE.
Letters == {"x", "b", "y", "o", "r", "d", "e", "T", "B", "I", "L", "O", "R", "D", "E"}
Digits == {"1"}
isalpha(ch) == ch \in Letters
isalnum(ch) == ch \in Letters \cup Digits
IsWord(ch) == ch \in Letters \cup Digits \cup {"_"}
IsSpace(ch) == ch \in Whitespace
upper(ch) ==
    IF ch = "x" THEN "X" ELSE IF ch = "b" THEN "B" ELSE IF ch = "y" THEN "Y"
    ELSE IF ch = "o" THEN "O" ELSE IF ch = "r" THEN "R" ELSE IF ch = "d" THEN "D"
    ELSE IF ch = "e" THEN "E" ELSE ch

\* The loop with no doubling: inside a literal every ' that is not the first
\* of a pair ends the literal.
RECURSIVE fix_scan_never_doubling(_, _, _)
fix_scan_never_doubling(sql, i, in_single) ==
    IF i > Len(sql) THEN <<>>
    ELSE IF ~in_single
    THEN <<sql[i]>> \o fix_scan_never_doubling(sql, i + 1, sql[i] = "'")
    ELSE IF sql[i] = "'"
    THEN IF i + 1 <= Len(sql) /\ sql[i + 1] = "'"
         THEN <<"'", "'">> \o fix_scan_never_doubling(sql, i + 2, TRUE)
         ELSE <<"'">> \o fix_scan_never_doubling(sql, i + 1, FALSE)
    ELSE <<sql[i]>> \o fix_scan_never_doubling(sql, i + 1, TRUE)

\* The while loop of fix_unescaped_apostrophes from position i: what it
\* appends to out.
RECURSIVE fix_scan(_, _, _)
fix_scan(sql, i, in_single) ==
    IF i > Len(sql) THEN <<>>
    ELSE IF ~in_single
    THEN <<sql[i]>> \o fix_scan(sql, i + 1, sql[i] = "'")
    ELSE IF sql[i] = "'"
    THEN IF i + 1 <= Len(sql) /\ sql[i + 1] = "'"
         THEN <<"'", "'">> \o fix_scan(sql, i + 2, TRUE)
         ELSE IF i + 1 <= Len(sql) /\ isalpha(sql[i + 1])
         THEN <<"'", "'">> \o fix_scan(sql, i + 1, TRUE)
         ELSE <<"'">> \o fix_scan(sql, i + 1, FALSE)
    ELSE <<sql[i]>> \o fix_scan(sql, i + 1, TRUE)

fix_unescaped_apostrophes(sql) == fix_scan(sql, 1, FALSE)

\* The inner while loop of quote_hyphenated_identifiers: the first position
\* from j that holds no letter, digit, underscore or hyphen.
RECURSIVE token_end(_, _)
token_end(sql, j) ==
    IF j <= Len(sql) /\ (isalnum(sql[j]) \/ sql[j] \in {"_", "-"})
    THEN token_end(sql, j + 1)
    ELSE j

\* A token with a hyphen is emitted with underscores for its hyphens.
emit_token_renamed(token) ==
    [k \in 1..Len(token) |-> IF token[k] = "-" THEN "_" ELSE token[k]]

\* A token is quoted whether or not it holds a hyphen.
emit_token_quoted(token) == <<"\"">> \o token \o <<"\"">>

\* if '-' in token: the token between double quotes; else: the token.
emit_token(token) ==
    IF \E k \in 1..Len(token) : token[k] = "-"
    THEN <<"\"">> \o token \o <<"\"">>
    ELSE token

\* The while loop of quote_hyphenated_identifiers from position i in state
\* st ("out", "line", "block", "single", "double"): what it appends to out.
RECURSIVE hyphen_scan(_, _, _)
hyphen_scan(sql, i, st) ==
    IF i > Len(sql) THEN <<>>
    ELSE LET ch == sql[i]
             more == i + 1 <= Len(sql)
         IN IF st = "line"
            THEN <<ch>> \o hyphen_scan(sql, i + 1, IF ch = "\n" THEN "out" ELSE "line")
            ELSE IF st = "block"
            THEN IF ch = "*" /\ more /\ sql[i + 1] = "/"
                 THEN <<ch, "/">> \o hyphen_scan(sql, i + 2, "out")
                 ELSE <<ch>> \o hyphen_scan(sql, i + 1, "block")
            ELSE IF st = "single"
            THEN IF ch = "'" /\ more /\ sql[i + 1] = "'"
                 THEN <<ch, "'">> \o hyphen_scan(sql, i + 2, "single")
                 ELSE IF ch = "'"
                 THEN <<ch>> \o hyphen_scan(sql, i + 1, "out")
                 ELSE <<ch>> \o hyphen_scan(sql, i + 1, "single")
            ELSE IF st = "double"
            THEN IF ch = "\"" /\ more /\ sql[i + 1] = "\""
                 THEN <<ch, "\"">> \o hyphen_scan(sql, i + 2, "double")
                 ELSE IF ch = "\""
                 THEN <<ch>> \o hyphen_scan(sql, i + 1, "out")
                 ELSE <<ch>> \o hyphen_scan(sql, i + 1, "double")
            ELSE IF ch = "-" /\ more /\ sql[i + 1] = "-"
            THEN <<ch, sql[i + 1]>> \o hyphen_scan(sql, i + 2, "line")
            ELSE IF ch = "/" /\ more /\ sql[i + 1] = "*"
            THEN <<ch, sql[i + 1]>> \o hyphen_scan(sql, i + 2, "block")
            ELSE IF ch = "'"
            THEN <<ch>> \o hyphen_scan(sql, i + 1, "single")
            ELSE IF ch = "\""
            THEN <<ch>> \o hyphen_scan(sql, i + 1, "double")
            ELSE IF isalpha(ch) \/ ch = "_"
            THEN LET j == token_end(sql, i + 1)
                 IN emit_token(SubSeq(sql, i, j - 1)) \o hyphen_scan(sql, j, "out")
            ELSE <<ch>> \o hyphen_scan(sql, i + 1, "out")

quote_hyphenated_identifiers(sql) == hyphen_scan(sql, 1, "out")

RESERVED == <<"O", "R", "D", "E", "R">>

\* \b at the gap before position i of sql.
WordBoundary(sql, i) ==
    (i - 1 >= 1 /\ IsWord(sql[i - 1])) # (i <= Len(sql) /\ IsWord(sql[i]))

\* \s+BY\b matches at position i of sql, ignoring case.
SpacesThenBy(sql, i) ==
    \E k \in 1..(Len(sql) - i) :
        /\ \A m \in i..(i + k - 1) : IsSpace(sql[m])
        /\ i + k + 1 <= Len(sql)
        /\ upper(sql[i + k]) = "B"
        /\ upper(sql[i + k + 1]) = "Y"
        /\ WordBoundary(sql, i + k + 2)

\* The pattern without its two tests for a double quote next to the word.
reserved_match_unguarded(sql, i) ==
    /\ i + Len(RESERVED) - 1 <= Len(sql)
    /\ \A k \in 1..Len(RESERVED) : upper(sql[i + k - 1]) = RESERVED[k]
    /\ WordBoundary(sql, i)
    /\ WordBoundary(sql, i + Len(RESERVED))
    /\ ~SpacesThenBy(sql, i + Len(RESERVED))

\* The pattern without its test for a following BY.
reserved_match_any_by(sql, i) ==
    /\ i + Len(RESERVED) - 1 <= Len(sql)
    /\ \A k \in 1..Len(RESERVED) : upper(sql[i + k - 1]) = RESERVED[k]
    /\ ~(i - 1 >= 1 /\ sql[i - 1] = "\"")
    /\ WordBoundary(sql, i)
    /\ WordBoundary(sql, i + Len(RESERVED))
    /\ ~(i + Len(RESERVED) <= Len(sql) /\ sql[i + Len(RESERVED)] = "\"")

\* (?<!")\bORDER\b(?!")(?!(\s+BY\b)) with re.IGNORECASE matches at position i.
reserved_match(sql, i) ==
    /\ i + Len(RESERVED) - 1 <= Len(sql)
    /\ \A k \in 1..Len(RESERVED) : upper(sql[i + k - 1]) = RESERVED[k]
    /\ ~(i - 1 >= 1 /\ sql[i - 1] = "\"")
    /\ WordBoundary(sql, i)
    /\ WordBoundary(sql, i + Len(RESERVED))
    /\ ~(i + Len(RESERVED) <= Len(sql) /\ sql[i + Len(RESERVED)] = "\"")
    /\ ~SpacesThenBy(sql, i + Len(RESERVED))

\* re.sub(pattern, _repl, sql) from position i: the matches, left to right
\* and not overlapping, are replaced by the match between double quotes.
RECURSIVE reserved_sub(_, _)
reserved_sub(sql, i) ==
    IF i > Len(sql) THEN <<>>
    ELSE IF reserved_match(sql, i)
    THEN <<"\"">> \o SubSeq(sql, i, i + Len(RESERVED) - 1) \o <<"\"">>
         \o reserved_sub(sql, i + Len(RESERVED))
    ELSE <<sql[i]>> \o reserved_sub(sql, i + 1)

quote_reserved_columns(sql) == reserved_sub(sql, 1)

\* run_sqlite_case, lines 292-294: the three passes over setup_sql.
sanitize(setup_sql) ==
    quote_reserved_columns(quote_hyphenated_identifiers(fix_unescaped_apostrophes(setup_sql)))

\* The texts of the model: up to MaxSqlPieces pieces of SQL text.
SqlPieces ==
    { <<"'">>, <<"\"">>, <<"-">>, <<" ">>, <<"\n">>, <<"x">>, <<"_">>, <<"1">>,
      <<"T", "-", "B", "I", "L">>, <<"O", "R", "D", "E", "R">>, <<"o", "r", "d", "e", "r">>,
      <<"b", "y">>,
      <<"/", "*">>, <<"*", "/">> }

SqlTexts == {Concat(ps) : ps \in UNION {[1..k -> SqlPieces] : k \in 0..MaxSqlPieces}}

SanitizeInit ==
    /\ text \in SqlTexts
    /\ tpc = "call"
    /\ parsed = NotReturned
    /\ sanitized = <<>>
    /\ resanitized = <<>>
    /\ PoolUnused /\ ScoreUnused /\ CmpUnused /\ CaseUnused /\ MainUnused

\* quote_hyphenated_identifiers(text)
QuoteHyphenatedIdentifiers ==
    /\ tpc = "call"
    /\ sanitized' = quote_hyphenated_identifiers(text)
    /\ tpc' = "hyphenated"
    /\ UNCHANGED <<poolvars, scorevars, cmpvars, casevars, mainvars, text, parsed, resanitized>>

\* quote_reserved_columns(text)
QuoteReservedColumns ==
    /\ tpc = "call"
    /\ sanitized' = quote_reserved_columns(text)
    /\ tpc' = "reserved"
    /\ UNCHANGED <<poolvars, scorevars, cmpvars, casevars, mainvars, text, parsed, resanitized>>

\* fix_unescaped_apostrophes(text)
FixUnescapedApostrophes ==
    /\ tpc = "call"
    /\ sanitized' = fix_unescaped_apostrophes(text)
    /\ tpc' = "fixed"
    /\ UNCHANGED <<poolvars, scorevars, cmpvars, casevars, mainvars, text, parsed, resanitized>>

\* The three passes of run_sqlite_case over the text.
Sanitize ==
    /\ tpc = "call"
    /\ sanitized' = sanitize(text)
    /\ tpc' = "sanitized"
    /\ UNCHANGED <<poolvars, scorevars, cmpvars, casevars, mainvars, text, parsed, resanitized>>

\* The three passes over their own output.
Resanitize ==
    /\ tpc = "sanitized"
    /\ resanitized' = sanitize(sanitized)
    /\ tpc' = "resanitized"
    /\ UNCHANGED <<poolvars, scorevars, cmpvars, casevars, mainvars, text, parsed, sanitized>>

SanitizeNext ==
    \/ FixUnescapedApostrophes
    \/ QuoteHyphenatedIdentifiers
    \/ QuoteReservedColumns
    \/ Sanitize
    \/ Resanitize

SpecSanitize == SanitizeInit /\ [][SanitizeNext]_vars

\* ===================================================================
\* Part V: verify_verieql_cases.py, main from the input csv to the override
\* ===================================================================

\* The dtype pandas.read_csv gives a column of texts: bool when every value is
\* True or False, int64 when every value is a number, object (the texts
\* themselves, as str) otherwise.
ColumnIsBool(values) == values # {} /\ values \subseteq {"True", "False"}

\* A question_id as it stands in a csv file: the digits of a number and the
\* text after them.  The column is numeric when no value has text after the
\* digits.
PlainId(number) == [number |-> number, suffix |-> ""]
IdColumnIsInt(ids) == \A id \in ids : id.suffix = ""

\* The values of a sequence of records under one key.
Column(records, key) == {records[k][key] : k \in 1..Len(records)}

\* generate_false_positives: the rows of temp.csv, df[(df["res"] == "correct")
\* & (df["equivalent"] == "False")].  A bool column equals the str "False"
\* nowhere.
generate_false_positives(records) ==
    SelectSeq(records, LAMBDA r :
        /\ r.res = "correct"
        /\ ~ColumnIsBool(Column(records, "equivalent"))
        /\ r.equivalent = "False")

\* The identifier of block j of a cell with `count` blocks, where the first
\* block of several keeps the identifier of the row.
case_id_first_plain(base_id, count, j) ==
    IF count = 1 \/ j = 1 THEN PlainId(base_id)
    ELSE [number |-> base_id, suffix |-> "_blk" \o ToString(j)]

\* str(base_id) for the only block of a cell, f"{base_id}_blk{j}" for block j
\* of several.
case_id(base_id, count, j) ==
    IF count = 1 THEN PlainId(base_id)
    ELSE [number |-> base_id, suffix |-> "_blk" \o ToString(j)]

\* The cases read_cases_from_block_csv appends for one row whose cell parsed
\* into `blocks`.
row_cases(row, blocks) ==
    [j \in 1..Len(blocks) |->
        [bound_size |-> row.bound_size,
         question_id |-> case_id(row.question_id, Len(blocks), j),
         setup_sql |-> blocks[j].setup_sql,
         sql1 |-> blocks[j].sql1,
         sql2 |-> blocks[j].sql2]]

\* The loop of read_cases_from_block_csv over the rows: a row with an empty
\* cell or with no block is skipped; an exception of parse_block_text leaves
\* the function.
RECURSIVE read_cases_from_block_csv(_)
read_cases_from_block_csv(rows) ==
    IF rows = <<>> THEN [kind |-> "return", val |-> <<>>]
    ELSE LET raw_block == strip(rows[1].counterexample)
             blocks == parse_block_text(raw_block)
             rest == read_cases_from_block_csv(Tail(rows))
         IN IF raw_block = <<>> THEN rest
            ELSE IF blocks.kind = "raise" THEN blocks
            ELSE IF rest.kind = "raise" THEN rest
            ELSE [kind |-> "return", val |-> row_cases(rows[1], blocks.val) \o rest.val]

\* df[df["equal"] == True] on the results csv read back by pandas: a str
\* equals True nowhere.
incorrect_attacks(rows) ==
    SelectSeq(rows, LAMBDA r : ColumnIsBool(Column(rows, "equal")) /\ r.equal = "True")

\* The mask of lines 558-561 for record r and one attack: the int question_id
\* of the input equals a question_id of the results only if that column is
\* numeric too.
attack_matches(r, attack, rows) ==
    /\ IdColumnIsInt(Column(rows, "question_id"))
    /\ attack.question_id.number = r.question_id
    /\ attack.bound_size = r.bound_size

\* Lines 554-563: df_final after the loop over the incorrect attacks.
claim_override(records, rows) ==
    LET attacks == incorrect_attacks(rows)
    IN [k \in 1..Len(records) |->
           IF \E a \in 1..Len(attacks) : attack_matches(records[k], attacks[a], rows)
           THEN [records[k] EXCEPT !.equivalent = "Failed Attack"]
           ELSE records[k]]

\* The cells of the counterexample column: empty, one block, two blocks, a
\* text with no marker, and a block with the sql2 marker before the sql1
\* marker.
OneBlock == <<"q">> \o SQL1_MARK \o <<"q">> \o SQL2_MARK \o <<"q">>
WrongOrder == <<"q">> \o SQL2_MARK \o <<"q">> \o SQL1_MARK \o <<"q">>
CellValuesCsv == {<<>>, OneBlock, OneBlock \o BlockDelimiter \o OneBlock, <<"q">>, WrongOrder}

\* The records of the input csv.  The cell of a record that the mask of
\* generate_false_positives leaves out is never read.
RecordValues ==
    [question_id : 1..MaxIds, bound_size : 1..MaxIds, res : {"correct"},
     equivalent : {"False"}, counterexample : CellValuesCsv]
    \cup [question_id : 1..MaxIds, bound_size : 1..MaxIds, res : {"correct"},
          equivalent : {"True", "Timeout"}, counterexample : {<<>>}]
    \cup [question_id : 1..MaxIds, bound_size : 1..MaxIds, res : {"incorrect"},
          equivalent : {"False"}, counterexample : {<<>>}]

VerdictValues == {"True", "False", "Error"}

MainInit ==
    /\ dataset \in UNION {[1..k -> RecordValues] : k \in 0..MaxRecords}
    /\ mcases = <<>>
    /\ mpc = "start"
    /\ mresults = <<>>
    /\ written = None
    /\ df_final = <<>>
    /\ exitcode = -1
    /\ PoolUnused /\ ScoreUnused /\ CmpUnused /\ CaseUnused /\ TextUnused

\* main, lines 521-531: the false positives are written to temp.csv and the
\* cases are read from it.  An exception ends the process with status 1;
\* with no case main calls sys.exit(2).
ReadCases ==
    /\ mpc = "start"
    /\ LET read == read_cases_from_block_csv(generate_false_positives(dataset))
       IN IF read.kind = "raise"
          THEN mcases' = <<>> /\ mpc' = "crashed" /\ exitcode' = 1
          ELSE IF read.val = <<>>
          THEN mcases' = <<>> /\ mpc' = "exited" /\ exitcode' = 2
          ELSE mcases' = read.val /\ mpc' = "loop" /\ exitcode' = exitcode
    /\ UNCHANGED <<poolvars, scorevars, cmpvars, casevars, textvars, dataset, mresults, written,
                   df_final>>

\* One turn of the loop of lines 533-539: run_sqlite_case returns its outcome
\* for the next case, here the verdict, and main adds the identifiers.
RunCase(equal) ==
    /\ mpc = "loop"
    /\ Len(mresults) < Len(mcases)
    /\ mresults' = Append(mresults,
                          [question_id |-> mcases[Len(mresults) + 1].question_id,
                           bound_size |-> mcases[Len(mresults) + 1].bound_size,
                           equal |-> equal])
    /\ UNCHANGED <<poolvars, scorevars, cmpvars, casevars, textvars, dataset, mcases, mpc, written,
                   df_final, exitcode>>

\* write_results(args.out, results), after the loop.
WriteResultsCsv ==
    /\ mpc = "loop"
    /\ Len(mresults) = Len(mcases)
    /\ written' = Some(mresults)
    /\ mpc' = "written"
    /\ UNCHANGED <<poolvars, scorevars, cmpvars, casevars, textvars, dataset, mcases, mresults,
                   df_final, exitcode>>

\* Lines 546-566: the results csv is read back, the records of the input that
\* match an incorrect attack are relabelled and written to ATTACK_UPDATED.csv.
ClaimOverride ==
    /\ mpc = "written"
    /\ df_final' = claim_override(dataset, written.val)
    /\ mpc' = "overridden"
    /\ UNCHANGED <<poolvars, scorevars, cmpvars, casevars, textvars, dataset, mcases, mresults,
                   written, exitcode>>

MainNext ==
    \/ ReadCases
    \/ \E equal \in VerdictValues : RunCase(equal)
    \/ WriteResultsCsv
    \/ ClaimOverride

SpecMain == MainInit /\ [][MainNext]_vars

\* ===================================================================
\* Specifications
\* ===================================================================

Init == PoolInit /\ ScoreInit /\ CmpUnused /\ CaseUnused /\ TextUnused /\ MainUnused

Next == PoolNext

Spec == Init /\ [][Next]_vars

\* The processes of the pool and the threads of the main process are scheduled
\* by the operating system: a step that stays possible is taken.  Interrupts
\* come from the operator and are under no obligation.
FairSpec ==
    /\ Init /\ [][Next]_vars
    /\ WF_vars(ApplyAsync) /\ WF_vars(PoolClose) /\ WF_vars(HandleResult)
    /\ WF_vars(PoolJoin) /\ WF_vars(SortResults)
    /\ \A w \in 1..MaxCpus : WF_vars(w \in 1..num_cpus /\ WorkerTake(w))
    /\ \A w \in 1..MaxCpus : WF_vars(w \in 1..num_cpus /\ WorkerRun(w))

\* ===================================================================
\* Claims
\* ===================================================================

\* The sql_idx values of a list, in order.
Indices(list) == [k \in 1..Len(list) |-> list[k].sql_idx]

\* The positions of `list` that hold a result of task i.
ResultsOf(list, i) == {k \in 1..Len(list) : list[k].sql_idx = i}

\* C1: after pool.join() and sort_results the sql_idx values of the collected
\* results are exactly 0, 1, ..., n-1 in that order, each once, for every pool
\* size and every completion order.
C1_SortedIndicesAreInput ==
    mainpc = "sorted" => Indices(exec_result) = [k \in 1..n |-> k - 1]

\* C1 witness: a batch on two processes whose results arrived out of order
\* has been sorted.
C1_Witness ==
    /\ mainpc = "sorted"
    /\ n = MaxTasks
    /\ num_cpus > 1
    /\ Indices(arrival) # [k \in 1..n |-> k - 1]
    /\ Indices(exec_result) = [k \in 1..n |-> k - 1]

\* The flag the outcome of task i carries: 1 when the two result sets match, 0
\* when they do not, when the query raises and when it times out.
ExpectedEx(i) == IF behav[i] = "ex1" THEN 1 ELSE 0

C2_AllDelivered ==
    mainpc \in {"sort", "sorted"} =>
        \A i \in 0..(n - 1) :
            /\ Cardinality(ResultsOf(exec_result, i)) = 1
            /\ \A k \in ResultsOf(exec_result, i) : exec_result[k].ex = ExpectedEx(i)

\* C2: a task that times out or raises inside execute_model aborts no sibling:
\* unless the operator interrupts, pool.join() returns, and then every task
\* has delivered exactly one result, its own.
C2_FailureSparesSiblings ==
    /\ []C2_AllDelivered
    /\ <>(mainpc = "sorted" \/ interrupts > 0)

\* C2 witness: a full batch with one timed-out task and the others normal has
\* been joined, with all results collected.
C2_Witness ==
    /\ mainpc = "sort"
    /\ n = MaxTasks
    /\ num_cpus = MaxCpus
    /\ Cardinality({i \in 0..(n - 1) : behav[i] = "FunctionTimedOut"}) = 1
    /\ \A i \in 0..(n - 1) : behav[i] \in {"FunctionTimedOut", "ex1", "ex0"}
    /\ Len(exec_result) = n

\* C3: execute_model returns {'sql_idx': idx, 'ex': 0} when the execution
\* times out or raises an ordinary exception and {'sql_idx': idx, 'ex': flag}
\* otherwise; it never leaves by the timeout or the exception.
C3_ExecuteModelOutcome ==
    \A i \in 0..(n - 1) :
        (ret[i] # NotReturned /\ i \notin hit) =>
            /\ ret[i].kind = "return"
            /\ ret[i].sql_idx = i
            /\ behav[i] \in {"FunctionTimedOut", "Exception"} => ret[i].ex = 0
            /\ behav[i] = "ex1" => ret[i].ex = 1
            /\ behav[i] = "ex0" => ret[i].ex = 0

\* C3 witness: execute_model has returned for a timed-out task, for a task
\* whose query raised and for a task with flag 1.
C3_Witness ==
    /\ \E i \in 0..(n - 1) : behav[i] = "FunctionTimedOut" /\ ret[i] # NotReturned
    /\ \E i \in 0..(n - 1) : behav[i] = "Exception" /\ ret[i] # NotReturned
    /\ \E i \in 0..(n - 1) : behav[i] = "ex1" /\ ret[i] # NotReturned

\* The main process waits in pool.join() for a result that no process will
\* send: nothing is queued, nothing runs, and a job is still in the cache.
BlockedInJoin ==
    /\ mainpc = "join"
    /\ cache # {}
    /\ taskqueue = <<>>
    /\ outqueue = <<>>
    /\ \A w \in 1..num_cpus : workers[w] = Idle

\* C4: once a KeyboardInterrupt has arrived in a task of the pool, the run
\* ends: the task gets no ordinary outcome, no further task is handed to a
\* worker, the results are not sorted and aggregated, and the main process
\* does not stay blocked waiting for the interrupted task's result.
C4_InterruptEndsRun ==
    /\ [](\A i \in hit : ret[i].kind # "return")
    /\ [][hit # {} => started' = started]_vars
    /\ [](hit # {} => mainpc \notin {"sort", "sorted"})
    /\ [](hit # {} => ~BlockedInJoin)

\* The script holds a statement SQLite cannot parse.
HasMalformed(script) == \E k \in 1..Len(script) : script[k].op = "malformed"

\* What a case's own statements leave in a database that was empty.
OwnSetup(c) == executescript(EmptyDb, c.setup_sql)
OwnAfterSql1(c) == SqliteStep(OwnSetup(c).db, c.sql1).db
OwnAfterSql2(c) == SqliteStep(OwnAfterSql1(c), c.sql2).db

\* C5: if executing the setup script fails, run_sqlite_case returns equal =
\* 'Error' with q1_ok = False and q2_ok = False and the setup error recorded in
\* the outcome, and neither sql1 nor sql2 has been executed.
C5_SetupFailure ==
    (rpc = "return" /\ ~OwnSetup(Current).ok) =>
        /\ out.equal = "Error"
        /\ out.q1_ok = FALSE
        /\ out.q2_ok = FALSE
        /\ out.q1_error = "setup_error: " \o OwnSetup(Current).error
        /\ ran = {}
        /\ con.open = FALSE

\* C5 witness: a call whose setup script failed at its third statement has
\* returned.
C5_Witness ==
    /\ rpc = "return"
    /\ Current.setup_sql = <<CreateTable("u"), InsertInto("u", 1), Malformed>>
    /\ Current.sql1 = SelectFrom("u")
    /\ out.q1_error = "setup_error: near \"x\": syntax error"

\* C6 as claimed: for a case whose setup_sql is syntactically invalid the
\* output record has verdict Error, generated_sql_ok = False, gold_sql_ok =
\* False and both query error fields empty.
C6_BothErrorFieldsEmpty ==
    rpc = "written" =>
        \A k \in 1..Len(csvrows) :
            HasMalformed(cases[k].setup_sql) =>
                /\ csvrows[k].equal = "Error"
                /\ csvrows[k].generated_sql_ok = FALSE
                /\ csvrows[k].gold_sql_ok = FALSE
                /\ csvrows[k].generated_sql_error = ""
                /\ csvrows[k].gold_sql_error = ""

\* C6 as amended: for a case whose setup_sql is syntactically invalid the
\* output record has verdict Error, generated_sql_ok = False, gold_sql_ok =
\* False, generated_sql_error holds the setup error behind the prefix
\* 'setup_error: ', and gold_sql_error is empty.
C6_SetupErrorInGeneratedField ==
    rpc = "written" =>
        \A k \in 1..Len(csvrows) :
            HasMalformed(cases[k].setup_sql) =>
                /\ csvrows[k].equal = "Error"
                /\ csvrows[k].generated_sql_ok = FALSE
                /\ csvrows[k].gold_sql_ok = FALSE
                /\ OwnSetup(cases[k]).error # ""
                /\ csvrows[k].generated_sql_error = "setup_error: " \o OwnSetup(cases[k]).error
                /\ csvrows[k].gold_sql_error = ""

\* C6 witness: the results of a run with a syntactically invalid setup script
\* have been written.
C6_Witness ==
    /\ rpc = "written"
    /\ \E k \in 1..Len(csvrows) :
          /\ cases[k].setup_sql = <<Malformed>>
          /\ csvrows[k].equal = "Error"
          /\ csvrows[k].generated_sql_error # ""

\* The verdict of outcome o goes with its two ok flags.
VerdictMatchesFlags(o) ==
    /\ o.equal \in {"True", "False", "Error"}
    /\ o.equal \in {"True", "False"} <=> (o.q1_ok /\ o.q2_ok)
    /\ ~(o.q1_ok /\ o.q2_ok) => o.equal = "Error"
    /\ (o.q1_error # "" \/ o.q2_error # "") => o.equal = "Error"

\* C7: in every outcome returned by run_sqlite_case, equal is 'True' or
\* 'False' if and only if q1_ok and q2_ok are both True; after a setup
\* failure, a failure of sql1, of sql2 or of both, equal is 'Error'.
C7_VerdictIffBothOk ==
    /\ rpc = "return" => VerdictMatchesFlags(out)
    /\ \A k \in 1..Len(results) : VerdictMatchesFlags(results[k])

\* C7 witness: a call where both queries ran and gave different results has
\* returned, after a call where sql1 succeeded and sql2 failed.
C7_Witness ==
    /\ rpc = "return"
    /\ out.q1_ok /\ out.q2_ok /\ out.equal = "False"
    /\ Len(results) = 1
    /\ results[1].q1_ok /\ ~results[1].q2_ok /\ results[1].equal = "Error"

\* How often row r occurs in rows.
Occurrences(r, rows) == Cardinality({k \in 1..Len(rows) : rows[k] = r})

\* rows2 holds the rows of rows1, each as often, in some order.
IsPermutation(rows1, rows2) ==
    /\ Len(rows1) = Len(rows2)
    /\ \E p \in Permutations(1..Len(rows1)) :
          \A k \in 1..Len(rows1) : rows2[k] = rows1[p[k]]

\* Two cells hold the same value: the same cell, or two numbers of one value
\* (the comparison of the language does not tell 1 from 1.0).
SameValue(a, b) ==
    \/ a = b
    \/ a.t \in {"int", "real"} /\ b.t \in {"int", "real"} /\ a.v = b.v

\* Two row sequences are the same, position by position.
SameSequence(rows1, rows2) ==
    /\ Len(rows1) = Len(rows2)
    /\ \A k \in 1..Len(rows1) :
          /\ Len(rows1[k]) = Len(rows2[k])
          /\ \A j \in 1..Len(rows1[k]) : SameValue(rows1[k][j], rows2[k][j])

C9_MultisetEquality ==
    (cmppc = "returned" /\ ~order_sensitive) =>
        (verdict <=>
            /\ res1.columns = res2.columns
            /\ \A r \in RowValues : Occurrences(r, res1.rows) = Occurrences(r, res2.rows))

\* C9 witness: two results that differ only in how often a row is repeated
\* have been compared and reported not equal.
C9_Witness ==
    /\ cmppc = "returned"
    /\ ~order_sensitive
    /\ res1.columns = res2.columns
    /\ res1.rows = << <<IntCell(1)>>, <<IntCell(1)>> >>
    /\ res2.rows = << <<IntCell(1)>> >>
    /\ verdict = FALSE

\* C10: each call of run_sqlite_case works on a database of its own that
\* starts empty: at every step the database of the call holds what the
\* statements of its own case have put there and nothing else, whatever cases
\* ran before it.
C10_OwnFreshDatabase ==
    /\ rpc = "setup" => con.open /\ con.db = EmptyDb
    /\ rpc = "q1" => con.open /\ con.db = OwnSetup(Current).db
    /\ rpc = "q2" => con.open /\ con.db = OwnAfterSql1(Current)
    /\ rpc = "compare" => con.open /\ con.db = OwnAfterSql2(Current)
    /\ rpc \in {"idle", "return", "written"} => ~con.open

\* C10 witness: the first case created table u; the second case, whose setup
\* creates only t, asked for u and was told there is no such table.
C10_Witness ==
    /\ rpc = "q2"
    /\ Len(results) = 1
    /\ cases[1].setup_sql = <<CreateTable("u"), InsertInto("u", 1), Malformed>>
    /\ Current.setup_sql = <<CreateTable("t"), InsertInto("t", 1)>>
    /\ Current.sql1 = SelectFrom("u")
    /\ out.q1_error = "no such table: u"
    /\ DOMAIN con.db = {"t"}

\* The positions of the results that the difficulty file labels with `band`.
LabelledWith(band) ==
    IF diff_json.some
    THEN {i \in 1..Len(diff_json.val) : diff_json.val[i] = band}
    ELSE {}

\* The results at the positions P that carry flag 1.
Correct(P) == {i \in P : exec_result[i].ex = 1}

\* The accuracy acc is (correct / count) x 100.
IsRatio(acc, correct, count) == acc.num * count = correct * 100 * acc.den

\* The accuracy acc lies between 0 and 100.
IsPercentage(acc) == acc.den > 0 /\ 0 <= acc.num /\ acc.num <= 100 * acc.den

BandAccuracy(band) ==
    IF band = "simple" THEN score.simple_ex
    ELSE IF band = "moderate" THEN score.moderate_ex
    ELSE score.challenging_ex

\* The accuracy of `band` is the ratio over the results labelled with it, and
\* 0 when no result is.
BandIsRatio(band) ==
    IF LabelledWith(band) = {}
    THEN BandAccuracy(band).num = 0
    ELSE IsRatio(BandAccuracy(band), Cardinality(Correct(LabelledWith(band))),
                 Cardinality(LabelledWith(band)))

OverallIsRatio ==
    /\ IsRatio(score.all_ex, Cardinality(Correct(1..Len(exec_result))), Len(exec_result))
    /\ IsPercentage(score.all_ex)
    /\ \A band \in Bands : IsPercentage(BandAccuracy(band))

\* C16 as claimed: compute_ex_by_diff returns overall accuracy = (sum of ex
\* flags / number of results) x 100 and, for each of the bands simple,
\* moderate, challenging, the same ratio over the results labelled with that
\* band, with 0 for a band that has no results; every accuracy lies between 0
\* and 100.
C16_PerBandAccuracy ==
    mainpc = "scored" =>
        /\ OverallIsRatio
        /\ \A band \in Bands : BandIsRatio(band)

\* C16 as amended: as claimed when a difficulty file is given; without a
\* difficulty file the accuracy returned for every band is the overall
\* accuracy.
C16_PerBandAccuracyGivenLabels ==
    mainpc = "scored" =>
        /\ OverallIsRatio
        /\ diff_json.some => \A band \in Bands : BandIsRatio(band)
        /\ ~diff_json.some => \A band \in Bands : BandAccuracy(band) = score.all_ex

\* C16 witness: a full batch scored with a difficulty file that leaves one
\* band empty and labels a band with a failed and a passed result.
C16_Witness ==
    /\ mainpc = "scored"
    /\ n = MaxTasks
    /\ diff_json.some
    /\ LabelledWith("challenging") = {}
    /\ Cardinality(LabelledWith("simple")) = 2
    /\ Cardinality(Correct(LabelledWith("simple"))) = 1
    /\ score.simple_ex = Accuracy(1, 2)
    /\ score.challenging_ex = ZeroAccuracy

\* C17: a task whose execution errors or times out is scored as a failure
\* (flag 0) and stays in the denominator: the results fed to compute_ex are as
\* many as the tasks submitted, and the overall accuracy is the number of
\* matching tasks over the number of submitted tasks.
C17_FailuresStayInDenominator ==
    mainpc = "scored" =>
        /\ Len(exec_result) = n
        /\ score.count_lists[4] = n
        /\ \A i \in 0..(n - 1) :
              behav[i] \in {"FunctionTimedOut", "Exception"} =>
                  \E k \in 1..Len(exec_result) :
                      exec_result[k].sql_idx = i /\ exec_result[k].ex = 0
        /\ IsRatio(score.all_ex, Cardinality({i \in 0..(n - 1) : behav[i] = "ex1"}), n)

\* C17 witness: a batch with a timed-out task, a task whose query raised and
\* a matching task has been scored 100/3.
C17_Witness ==
    /\ mainpc = "scored"
    /\ n = 3
    /\ \E i \in 0..(n - 1) : behav[i] = "FunctionTimedOut"
    /\ \E i \in 0..(n - 1) : behav[i] = "Exception"
    /\ \E i \in 0..(n - 1) : behav[i] = "ex1"
    /\ score.all_ex = Accuracy(1, 3)

\* The chunks of the text that hold both markers.
ChunksWithBothMarkers ==
    {k \in 1..Len(Chunks(text)) :
        Contains(Chunks(text)[k], SQL1_MARK) /\ Contains(Chunks(text)[k], SQL2_MARK)}

\* C11: every triple returned by parse_block_text comes from a chunk that
\* contains both the sql1 marker and the sql2 marker and has non-empty
\* setup_sql, sql1 and sql2; a chunk missing either marker contributes no
\* triple, so there are at most as many triples as chunks with both markers.
C11_TriplesFromCompleteChunks ==
    (tpc = "returned" /\ parsed.kind = "return") =>
        /\ Len(parsed.val) <= Cardinality(ChunksWithBothMarkers)
        /\ \A t \in 1..Len(parsed.val) :
              /\ parsed.val[t].setup_sql # <<>>
              /\ parsed.val[t].sql1 # <<>>
              /\ parsed.val[t].sql2 # <<>>
              /\ \E k \in ChunksWithBothMarkers :
                    /\ Contains(Chunks(text)[k], parsed.val[t].setup_sql)
                    /\ Contains(Chunks(text)[k], parsed.val[t].sql1)
                    /\ Contains(Chunks(text)[k], parsed.val[t].sql2)

\* C11 witness: the text q <sql1 marker> q <sql2 marker> q has been parsed
\* into its one triple.
C11_Witness ==
    /\ tpc = "returned"
    /\ parsed.kind = "return"
    /\ text = <<"q">> \o SQL1_MARK \o <<"q">> \o SQL2_MARK \o <<"q">>
    /\ parsed.val = <<[setup_sql |-> <<"q">>, sql1 |-> <<"q">>, sql2 |-> <<"q">>]>>

\* C12: parse_block_text never raises, for any input text: a chunk whose
\* markers are missing, repeated or in the wrong order is dropped or yields
\* fewer cases.
C12_ParseNeverRaises ==
    tpc = "returned" => parsed.kind = "return"

\* C13: applying the three sanitizer passes, in the order run_sqlite_case
\* uses, to their own output changes nothing: sanitize(sanitize(t)) =
\* sanitize(t) for every text t.
C13_SanitizeIdempotent ==
    tpc = "resanitized" => resanitized = sanitized

\* C13 witness: in T-BIL''ORDER each pass changes something, and the passes
\* have been applied to the result once more.
C13_Witness ==
    /\ tpc = "resanitized"
    /\ text = <<"T", "-", "B", "I", "L", "'", "'", "O", "R", "D", "E", "R">>
    /\ sanitized = <<"\"", "T", "-", "B", "I", "L", "\"", "'", "'", "'",
                     "\"", "O", "R", "D", "E", "R", "\"">>

\* The scan of section 4.2: where each character of sql from position i lies,
\* for a scan that arrives there in state st.  "single", "double", "line" and
\* "block" are the four states, a closing delimiter carries "_end"; "run" is a
\* character of a candidate bare identifier, "out" any other character.
RECURSIVE Regions(_, _, _)
Regions(sql, i, st) ==
    IF i > Len(sql) THEN <<>>
    ELSE LET two(c) == i + 1 <= Len(sql) /\ sql[i] = c[1] /\ sql[i + 1] = c[2]
         IN CASE st = "line" ->
                   IF sql[i] = "\n" THEN <<"line_end">> \o Regions(sql, i + 1, "out")
                   ELSE <<"line">> \o Regions(sql, i + 1, "line")
              [] st = "block" ->
                   IF two(<<"*", "/">>) THEN <<"block", "block_end">> \o Regions(sql, i + 2, "out")
                   ELSE <<"block">> \o Regions(sql, i + 1, "block")
              [] st = "single" ->
                   IF two(<<"'", "'">>) THEN <<"single", "single">> \o Regions(sql, i + 2, "single")
                   ELSE IF sql[i] = "'" THEN <<"single_end">> \o Regions(sql, i + 1, "out")
                   ELSE <<"single">> \o Regions(sql, i + 1, "single")
              [] st = "double" ->
                   IF two(<<"\"", "\"">>) THEN <<"double", "double">> \o Regions(sql, i + 2, "double")
                   ELSE IF sql[i] = "\"" THEN <<"double_end">> \o Regions(sql, i + 1, "out")
                   ELSE <<"double">> \o Regions(sql, i + 1, "double")
              [] st = "run" ->
                   IF IsWord(sql[i]) \/ sql[i] = "-" THEN <<"run">> \o Regions(sql, i + 1, "run")
                   ELSE Regions(sql, i, "out")
              [] OTHER ->
                   IF two(<<"-", "-">>) THEN <<"line", "line">> \o Regions(sql, i + 2, "line")
                   ELSE IF two(<<"/", "*">>) THEN <<"block", "block">> \o Regions(sql, i + 2, "block")
                   ELSE IF sql[i] = "'" THEN <<"single">> \o Regions(sql, i + 1, "single")
                   ELSE IF sql[i] = "\"" THEN <<"double">> \o Regions(sql, i + 1, "double")
                   ELSE IF sql[i] \in Letters \cup {"_"} THEN <<"run">> \o Regions(sql, i + 1, "run")
                   ELSE <<"out">> \o Regions(sql, i + 1, "out")

\* The candidate bare identifier around position p, given the region of every
\* position: its first and last position.
RunStart(region, p) ==
    CHOOSE a \in 1..p : (\A m \in a..p : region[m] = "run") /\ (a = 1 \/ region[a - 1] # "run")
RunEnd(region, p) ==
    CHOOSE b \in p..Len(region) :
        (\A m \in p..b : region[m] = "run") /\ (b = Len(region) \/ region[b + 1] # "run")

\* sql with a double quote before and after every candidate bare identifier
\* that holds a hyphen.
WithHyphenatedRunsQuoted(sql, region) ==
    Concat([p \in 1..Len(sql) |->
        IF region[p] = "run"
        THEN LET a == RunStart(region, p)
                 b == RunEnd(region, p)
             IN IF \E m \in a..b : sql[m] = "-"
                THEN (IF p = a THEN <<"\"">> ELSE <<>>) \o <<sql[p]>>
                     \o (IF p = b THEN <<"\"">> ELSE <<>>)
                ELSE <<sql[p]>>
        ELSE <<sql[p]>>])

\* Every candidate bare identifier is a run of letters, digits, underscore and
\* hyphen that starts with a letter or underscore, ends where the run ends
\* and starts where no letter or underscore precedes it.
RunsAreMaximal(sql, region) ==
    \A p \in 1..Len(sql) :
        (region[p] = "run" /\ (p = 1 \/ region[p - 1] # "run")) =>
            LET b == RunEnd(region, p)
            IN /\ sql[p] \in Letters \cup {"_"}
               /\ \A m \in p..b : sql[m] \in Letters \cup Digits \cup {"_", "-"}
               /\ b < Len(sql) => sql[b + 1] \notin Letters \cup Digits \cup {"_", "-"}
               /\ p > 1 => sql[p - 1] \notin Letters \cup {"_"}

\* C15: quote_hyphenated_identifiers wraps in double quotes exactly the
\* maximal runs of letters, digits, underscore and hyphen that start with a
\* letter or underscore, contain a hyphen and lie outside single-quoted
\* literals, double-quoted identifiers, line comments and block comments, and
\* emits everything else unchanged; a bare T-BIL becomes "T-BIL".
C15_HyphenatedRunsQuoted ==
    tpc = "hyphenated" =>
        LET region == Regions(text, 1, "out")
        IN /\ sanitized = WithHyphenatedRunsQuoted(text, region)
           /\ RunsAreMaximal(text, region)

\* C15 witness: in 1T-BIL'T-BIL the bare T-BIL after the digit has been
\* quoted and the T-BIL inside the literal has not.
C15_Witness ==
    /\ tpc = "hyphenated"
    /\ text = <<"1", "T", "-", "B", "I", "L", "'", "T", "-", "B", "I", "L">>
    /\ sanitized = <<"1", "\"", "T", "-", "B", "I", "L", "\"", "'", "T", "-", "B", "I", "L">>

\* The places of the input where the output has an inserted character: k
\* stands for the gap after the first k characters.  Both texts are read
\* from position i of the input and j of the output.
RECURSIVE InsertedAt(_, _, _, _)
InsertedAt(input, output, i, j) ==
    IF j > Len(output) THEN {}
    ELSE IF i <= Len(input) /\ output[j] = input[i] THEN InsertedAt(input, output, i + 1, j + 1)
    ELSE {i - 1} \cup InsertedAt(input, output, i, j + 1)

\* The output is the input with double quotes inserted and nothing else
\* changed.
RECURSIVE OnlyQuotesInserted(_, _, _, _)
OnlyQuotesInserted(input, output, i, j) ==
    IF j > Len(output) THEN i > Len(input)
    ELSE IF i <= Len(input) /\ output[j] = input[i] THEN OnlyQuotesInserted(input, output, i + 1, j + 1)
    ELSE output[j] = "\"" /\ OnlyQuotesInserted(input, output, i, j + 1)

\* The gap after the first k characters lies inside a single-quoted literal,
\* a line comment or a block comment.
InsideUntargeted(region, k) ==
    /\ 1 <= k /\ k < Len(region)
    /\ region[k] \in {"single", "line", "block"}

\* C14: quote_hyphenated_identifiers and quote_reserved_columns do not alter
\* text inside regions they are not targeting: every character inside a
\* single-quoted string literal, a line comment or a block comment is the same
\* in the output as in the input, and nothing is inserted between two of them.
C14_LiteralsAndCommentsUntouched ==
    tpc \in {"hyphenated", "reserved"} =>
        LET region == Regions(text, 1, "out")
        IN /\ OnlyQuotesInserted(text, sanitized, 1, 1)
           /\ \A k \in InsertedAt(text, sanitized, 1, 1) : ~InsideUntargeted(region, k)


\* -------------------------------------------------------------------
\* Claims about main of verify_verieql_cases.py (specification SpecMain)
\* -------------------------------------------------------------------

\* The rows of temp.csv and the triples each of them yields; a cell on which
\* parse_block_text raises yields none.
FpRows == generate_false_positives(dataset)

TriplesOfCell ==
    [cell \in CellValuesCsv |->
        LET blocks == parse_block_text(strip(cell))
        IN IF blocks.kind = "raise" THEN <<>> ELSE blocks.val]

TriplesOf(row) == TriplesOfCell[row.counterexample]

RECURSIVE TriplesBefore(_, _)
TriplesBefore(rows, i) ==
    IF i = 1 THEN 0 ELSE TriplesBefore(rows, i - 1) + Len(TriplesOf(rows[i - 1]))

\* The case read from triple j of row i.
CaseOf(i, j) == mcases[TriplesBefore(FpRows, i) + j]

CasesRead == mpc \in {"loop", "written", "overridden"}

Blk(number, j) == [number |-> number, suffix |-> "_blk" \o ToString(j)]

\* C20 (as stated): when a cell yields more than one triple, the first case
\* carries the identifier of the row unchanged and each later one carries it
\* with a positional suffix; when it yields exactly one, the identifier is
\* unchanged.
C20_FirstTripleKeepsId ==
    CasesRead =>
        \A i \in 1..Len(FpRows) : \A j \in 1..Len(TriplesOf(FpRows[i])) :
            IF j = 1
            THEN CaseOf(i, j).question_id = PlainId(FpRows[i].question_id)
            ELSE CaseOf(i, j).question_id = Blk(FpRows[i].question_id, j)

\* C20 (amended): when a cell yields more than one triple, every case of the
\* cell, the first included, carries the identifier of the row followed by
\* _blk and its position in the cell counted from 1; when the cell yields
\* exactly one triple, the identifier is unchanged.
C20_EveryTripleOfSeveralSuffixed ==
    CasesRead =>
        /\ Len(mcases) = TriplesBefore(FpRows, Len(FpRows) + 1)
        /\ \A i \in 1..Len(FpRows) : \A j \in 1..Len(TriplesOf(FpRows[i])) :
               IF Len(TriplesOf(FpRows[i])) = 1
               THEN CaseOf(i, j).question_id = PlainId(FpRows[i].question_id)
               ELSE CaseOf(i, j).question_id = Blk(FpRows[i].question_id, j)

\* C20 witness: the cases were read from a cell with one triple and from a
\* cell with two.
C20_Witness ==
    /\ CasesRead
    /\ \E i \in 1..Len(FpRows) : Len(TriplesOf(FpRows[i])) = 1
    /\ \E i \in 1..Len(FpRows) : Len(TriplesOf(FpRows[i])) = 2

\* C19: when no valid case is parsed from the input, main has exited with
\* status 2, no case was executed and no results file was written.
C19_NoCaseExitsTwo ==
    (mpc # "start" /\ \A i \in 1..Len(FpRows) : TriplesOf(FpRows[i]) = <<>>) =>
        /\ mpc = "exited"
        /\ exitcode = 2
        /\ mresults = <<>>
        /\ written = None

\* A verified case with verdict Equal that has the question_id and the
\* bound_size of record r.
EqualCaseOf(r) ==
    \E m \in 1..Len(mresults) :
        /\ mresults[m].equal = "True"
        /\ mresults[m].question_id = PlainId(r.question_id)
        /\ mresults[m].bound_size = r.bound_size

\* C18: after the override, every record of the input whose (question_id,
\* bound_size) is that of a verified case with verdict Equal has equivalent
\* 'Failed Attack', whatever the verdicts of the other cases of the run, and
\* every other record is unchanged.
C18_EqualCasesRelabelled ==
    mpc = "overridden" =>
        /\ Len(df_final) = Len(dataset)
        /\ \A k \in 1..Len(dataset) :
               IF EqualCaseOf(dataset[k])
               THEN df_final[k] = [dataset[k] EXCEPT !.equivalent = "Failed Attack"]
               ELSE df_final[k] = dataset[k]


\* -------------------------------------------------------------------
\* Claims about strip_leading_comment_lines (specification SpecParse)
\* -------------------------------------------------------------------

\* A line whose first non-blank content is the comment prefix.
CommentOnly(line) == StartsWithAt(strip(line), 1, <<"-", "-">>)

\* C21: the text strip_leading_comment_lines returns is empty or its first
\* line does not have -- as its first non-blank content, also when blank
\* lines stand between the leading comment lines.
C21_NoLeadingCommentLine ==
    tpc = "stripped" =>
        \/ parsed.val = <<>>
        \/ ~CommentOnly(splitlines(parsed.val)[1])


\* -------------------------------------------------------------------
\* Claims about the single sanitizer passes (specification SpecSanitize)
\* -------------------------------------------------------------------

\* The word ORDER, in any letter case, stands at position i of sql.
OrderAt(sql, i) ==
    /\ i + 4 <= Len(sql)
    /\ <<upper(sql[i]), upper(sql[i + 1]), upper(sql[i + 2]), upper(sql[i + 3]), upper(sql[i + 4])>>
           = <<"O", "R", "D", "E", "R">>
    /\ ~(i > 1 /\ IsWord(sql[i - 1]))
    /\ ~(i + 5 <= Len(sql) /\ IsWord(sql[i + 5]))

QuoteBefore(sql, i) == i > 1 /\ sql[i - 1] = "\""
QuoteAfter(sql, i) == i + 5 <= Len(sql) /\ sql[i + 5] = "\""

\* The occurrences the claim speaks of: bare ones, with no double quote on
\* either side, and enclosed ones, with one on both sides.
BareOrders(sql) ==
    {i \in 1..Len(sql) : OrderAt(sql, i) /\ ~QuoteBefore(sql, i) /\ ~QuoteAfter(sql, i)}
EnclosedOrders(sql) ==
    {i \in 1..Len(sql) : OrderAt(sql, i) /\ QuoteBefore(sql, i) /\ QuoteAfter(sql, i)}
HalfQuotedOrders(sql) ==
    {i \in 1..Len(sql) : OrderAt(sql, i) /\ (QuoteBefore(sql, i) # QuoteAfter(sql, i))}

\* Whitespace and then the word BY follow the occurrence at i.
FollowedByBy(sql, i) ==
    \E j \in (i + 6)..(Len(sql) - 1) :
        /\ \A m \in (i + 5)..(j - 1) : sql[m] \in Whitespace
        /\ upper(sql[j]) = "B" /\ upper(sql[j + 1]) = "Y"
        /\ ~(j + 2 <= Len(sql) /\ IsWord(sql[j + 2]))

\* sql from position i on with the five characters at each position of
\* `at` between double quotes.
RECURSIVE WrappedAt(_, _, _)
WrappedAt(sql, i, at) ==
    IF i > Len(sql) THEN <<>>
    ELSE IF i \in at
    THEN <<"\"">> \o SubSeq(sql, i, i + 4) \o <<"\"">> \o WrappedAt(sql, i + 5, at)
    ELSE <<sql[i]>> \o WrappedAt(sql, i + 1, at)

\* C22: quote_reserved_columns puts every bare occurrence of the word ORDER,
\* in any letter case, between double quotes, except one followed by
\* whitespace and the word BY; an occurrence already between double quotes
\* is left as it is, and nothing else changes.
C22_BareOrderQuoted ==
    tpc = "reserved" =>
        \E others \in SUBSET HalfQuotedOrders(text) :
            sanitized = WrappedAt(text, 1,
                {i \in BareOrders(text) : ~FollowedByBy(text, i)} \cup others)

\* C22 witness: the pass has quoted a lower-case and an upper-case bare
\* occurrence.
C22_Witness ==
    /\ tpc = "reserved"
    /\ text = <<"o", "r", "d", "e", "r", " ", "O", "R", "D", "E", "R">>
    /\ sanitized = <<"\"", "o", "r", "d", "e", "r", "\"", " ", "\"", "O", "R", "D", "E", "R", "\"">>


\* What the claim says of each character from position i on, read inside a
\* literal (inside) or outside: "outside" for text outside literals, the '
\* that opens a literal included, "pair" for both characters of a '' pair,
\* "apostrophe" for a ' followed by a letter, "terminator" for any other '
\* inside a literal, "inside" for the other characters of a literal.
RECURSIVE Apostrophes(_, _, _)
Apostrophes(sql, i, inside) ==
    IF i > Len(sql) THEN <<>>
    ELSE IF ~inside
    THEN <<"outside">> \o Apostrophes(sql, i + 1, sql[i] = "'")
    ELSE IF sql[i] # "'"
    THEN <<"inside">> \o Apostrophes(sql, i + 1, TRUE)
    ELSE IF i < Len(sql) /\ sql[i + 1] = "'"
    THEN <<"pair", "pair">> \o Apostrophes(sql, i + 2, TRUE)
    ELSE IF i < Len(sql) /\ sql[i + 1] \in Letters
    THEN <<"apostrophe">> \o Apostrophes(sql, i + 1, TRUE)
    ELSE <<"terminator">> \o Apostrophes(sql, i + 1, FALSE)

\* sql with every character labelled "apostrophe" written twice.
RECURSIVE WithApostrophesDoubled(_, _, _)
WithApostrophesDoubled(sql, labels, i) ==
    IF i > Len(sql) THEN <<>>
    ELSE (IF labels[i] = "apostrophe" THEN <<sql[i], sql[i]>> ELSE <<sql[i]>>)
         \o WithApostrophesDoubled(sql, labels, i + 1)

\* C23: fix_unescaped_apostrophes copies the text outside literals and,
\* inside a literal, copies a '' pair and stays in the literal, doubles a '
\* followed by a letter and stays in the literal, and takes a ' followed by
\* anything else or by the end of the text as the end of the literal.
C23_ApostrophesDoubled ==
    tpc = "fixed" =>
        sanitized = WithApostrophesDoubled(text, Apostrophes(text, 1, FALSE), 1)

\* C23 witness: the ' between two letters of a literal was doubled.
C23_Witness ==
    /\ tpc = "fixed"
    /\ text = <<"'", "x", "'", "x">>
    /\ sanitized = <<"'", "x", "'", "'", "x">>


\* -------------------------------------------------------------------
\* Claims about the two queries of run_sqlite_case (specification SpecCase)
\* -------------------------------------------------------------------

\* What SQLite answers to sql1 of case c on the database its setup script
\* built, and to sql2 on the database sql1 left.
OwnQuery1(c) == SqliteStep(OwnSetup(c).db, c.sql1)
OwnQuery2(c) == SqliteStep(OwnQuery1(c).db, c.sql2)

\* The fields of one side as the answer `cur` of SQLite determines them.
SideRecorded(ok, error, columns, rowcount, cur) ==
    /\ ok = cur.ok
    /\ error = cur.error
    /\ columns = IF cur.ok THEN Some(cur.columns) ELSE None
    /\ rowcount = IF cur.ok THEN Some(Len(cur.rows)) ELSE None

\* C24: when the setup succeeds, sql2 is executed whether or not sql1 failed
\* and each side's outcome is recorded in its own fields only: after a failing
\* sql1 the q2 fields are those of executing sql2, and after a failing sql2
\* the q1 fields are those of the successful sql1.
C24_SidesIndependent ==
    (rpc = "return" /\ OwnSetup(Current).ok) =>
        /\ ran = {"sql1", "sql2"}
        /\ SideRecorded(out.q1_ok, out.q1_error, out.q1_columns, out.q1_rowcount, OwnQuery1(Current))
        /\ SideRecorded(out.q2_ok, out.q2_error, out.q2_columns, out.q2_rowcount, OwnQuery2(Current))

\* C24 witness: a call whose sql1 failed and whose sql2 returned a row has
\* returned, after a call whose sql1 returned a row and whose sql2 failed.
C24_Witness ==
    /\ rpc = "return"
    /\ ~out.q1_ok /\ out.q1_error # ""
    /\ out.q2_ok /\ out.q2_error = "" /\ out.q2_rowcount = Some(1)
    /\ Len(results) = 1
    /\ results[1].q1_ok /\ results[1].q1_rowcount = Some(1) /\ results[1].q1_columns = Some(<<"x">>)
    /\ ~results[1].q2_ok /\ results[1].q2_error # ""


\* -------------------------------------------------------------------
\* Claims about the pool and the scoring step (specification Spec)
\* -------------------------------------------------------------------

\* C25: every submitted task is executed at most once: a task that timed out
\* or failed is recorded with ex = 0 and never submitted again, and the
\* collected results never hold two entries with the same sql_idx.
C25_ExecutedAtMostOnce ==
    \A i \in 0..(n - 1) :
        /\ started[i] <= 1
        /\ Cardinality({k \in 1..Len(taskqueue) : taskqueue[k] = i}) + started[i] <= 1
        /\ Cardinality(ResultsOf(exec_result, i)) <= 1
        /\ behav[i] \in {"FunctionTimedOut", "Exception"} =>
               \A k \in ResultsOf(exec_result, i) : exec_result[k].ex = 0

\* C25 witness: pool.join() can return after a batch with a timed-out task
\* and a task whose query raised; each was started once and left one result
\* with ex = 0.
C25_Witness ==
    /\ mainpc = "join"
    /\ cache = {}
    /\ n = MaxTasks
    /\ \E i \in 0..(n - 1) :
          /\ behav[i] = "FunctionTimedOut" /\ started[i] = 1
          /\ \E k \in 1..Len(exec_result) : exec_result[k] = [sql_idx |-> i, ex |-> 0]
    /\ \E i \in 0..(n - 1) :
          /\ behav[i] = "Exception" /\ started[i] = 1
          /\ \E k \in 1..Len(exec_result) : exec_result[k] = [sql_idx |-> i, ex |-> 0]


\* The positions of the main process from the call of sort_results on.
Aggregating == {"sort", "sorted", "scored", "crashed"}

\* Every task of the batch was dispatched and the callback has appended its
\* result.
AllAppended ==
    /\ next_i = n
    /\ \A i \in 0..(n - 1) : ResultsOf(exec_result, i) # {}

\* Two lists hold the same results, each as often.
SameEntries(list1, list2) ==
    /\ Len(list1) = Len(list2)
    /\ \A r \in {list1[k] : k \in 1..Len(list1)} \cup {list2[k] : k \in 1..Len(list2)} :
          Cardinality({k \in 1..Len(list1) : list1[k] = r})
              = Cardinality({k \in 1..Len(list2) : list2[k] = r})

\* C26: sort_results and compute_ex_by_diff start only after the callback has
\* appended the result of every dispatched task, and from the start of
\* sorting on no result is appended to the list.
C26_AggregationAfterCollection ==
    [][/\ mainpc' \in Aggregating => AllAppended'
       /\ mainpc \in Aggregating =>
              /\ mainpc' \in Aggregating
              /\ SameEntries(exec_result, exec_result')]_vars

\* C26 witness: a full batch on two processes whose results arrived out of
\* submission order has been sorted and scored.
C26_Witness ==
    /\ mainpc = "scored"
    /\ n = MaxTasks
    /\ num_cpus = MaxCpus
    /\ AllAppended
    /\ Indices(arrival) # Indices(exec_result)


\* -------------------------------------------------------------------
\* Claims about the passes together (specification SpecSanitize)
\* -------------------------------------------------------------------

\* For every character of WithHyphenatedRunsQuoted(sql, region): "open" and
\* "close" for the quotes put around a hyphenated identifier, "token" for its
\* characters, "other" for the rest.
HyphenatedRunMarks(sql, region) ==
    Concat([p \in 1..Len(sql) |->
        IF region[p] = "run"
        THEN LET a == RunStart(region, p)
                 b == RunEnd(region, p)
             IN IF \E m \in a..b : sql[m] = "-"
                THEN (IF p = a THEN <<"open">> ELSE <<>>) \o <<"token">>
                     \o (IF p = b THEN <<"close">> ELSE <<>>)
                ELSE <<"other">>
        ELSE <<"other">>])

\* C27: after the three passes every bare hyphenated identifier of the setup
\* text, outside literals and comments, stands in the output as one
\* double-quoted identifier with the token unchanged between the quotes, also
\* when one of its segments is the word ORDER.
C27_HyphenatedIdentifiersStayWhole ==
    tpc = "sanitized" =>
        LET fixed == fix_unescaped_apostrophes(text)
            region == Regions(fixed, 1, "out")
            quoted == WithHyphenatedRunsQuoted(fixed, region)
            marks == HyphenatedRunMarks(fixed, region)
        IN /\ OnlyQuotesInserted(quoted, sanitized, 1, 1)
           /\ \A k \in InsertedAt(quoted, sanitized, 1, 1) :
                  k >= 1 => marks[k] \notin {"open", "token"}


\* The output, read from position j, is the input, read from position i, with
\* characters ch inserted and nothing else changed.
RECURSIVE InsertsOnly(_, _, _, _, _)
InsertsOnly(input, output, ch, i, j) ==
    IF j > Len(output) THEN i > Len(input)
    ELSE \/ i <= Len(input) /\ output[j] = input[i] /\ InsertsOnly(input, output, ch, i + 1, j + 1)
         \/ output[j] = ch /\ InsertsOnly(input, output, ch, i, j + 1)

\* A character of an identifier or a word.
TokenChar(ch) == IsWord(ch) \/ ch = "-"

\* The output is the input with pairs of double quotes inserted, each pair
\* around one token of the input, and nothing else changed.  `pair` is "none"
\* outside a pair, "opened" after its first quote and "inside" once a
\* character of the token has been read.
RECURSIVE InsertsPairs(_, _, _, _, _)
InsertsPairs(input, output, pair, i, j) ==
    IF j > Len(output) THEN i > Len(input) /\ pair = "none"
    ELSE \/ /\ i <= Len(input) /\ output[j] = input[i]
            /\ pair # "none" => TokenChar(input[i])
            /\ InsertsPairs(input, output, IF pair = "none" THEN "none" ELSE "inside", i + 1, j + 1)
         \/ /\ output[j] = "\"" /\ pair = "none"
            /\ InsertsPairs(input, output, "opened", i, j + 1)
         \/ /\ output[j] = "\"" /\ pair = "inside"
            /\ InsertsPairs(input, output, "none", i, j + 1)

\* C28: each pass only inserts quote characters: fix_unescaped_apostrophes
\* single quotes, quote_hyphenated_identifiers and quote_reserved_columns
\* double quotes in pairs around one token; taking the inserted characters
\* out of the output of a pass gives its input, so no character of the input
\* is removed, replaced or moved.
C28_PassesOnlyInsertQuotes ==
    /\ tpc = "fixed" => InsertsOnly(text, sanitized, "'", 1, 1)
    /\ tpc \in {"hyphenated", "reserved"} => InsertsPairs(text, sanitized, "none", 1, 1)

\* C28 witness: the hyphen pass has put a pair of quotes around x-x in x-x",
\* next to a double quote of the input.
C28_Witness ==
    /\ tpc = "hyphenated"
    /\ text = <<"x", "-", "x", "\"">>
    /\ sanitized = <<"\"", "x", "-", "x", "\"", "\"">>


\* -------------------------------------------------------------------
\* Claims about the two modes of results_equal (specification SpecCompare)
\* -------------------------------------------------------------------

\* C29: two normalized results that the order-sensitive comparison reports
\* equal are reported equal by the order-insensitive comparison as well, also
\* when cells at the same place are equal numbers of different types, the
\* integer 1 and the real 1.0.
C29_SensitiveImpliesInsensitive ==
    (cmppc = "returned" /\ order_sensitive /\ verdict) =>
        results_equal(res1, res2, FALSE)


\* -------------------------------------------------------------------
\* Claims about the band counts (specification Spec)
\* -------------------------------------------------------------------

\* The labels of the difficulty file, none without a file.
Labels == IF diff_json.some THEN diff_json.val ELSE <<>>

\* The number of results compute_ex_by_diff reports for the three bands
\* together.
BandCountSum == score.count_lists[1] + score.count_lists[2] + score.count_lists[3]

\* The result at position i (counted from 0) is the one of task i.
ResultsInPlace == \A k \in 1..Len(exec_result) : exec_result[k].sql_idx = k - 1

AllLabelsAreBands == \A i \in 1..Len(Labels) : Labels[i] \in Bands

\* C30 as claimed: after a completed batch compute_ex_by_diff takes at position
\* i the result with sql_idx = i and scores every case in at most one band: the
\* three band counts sum to at most the number of results, and to exactly
\* that number if and only if every label is simple, moderate or challenging.
C30_BandCountsPartition ==
    mainpc = "scored" =>
        /\ ResultsInPlace
        /\ BandCountSum <= Len(exec_result)
        /\ BandCountSum = Len(exec_result) <=> AllLabelsAreBands

\* C30 as amended: the result taken at position i has sql_idx = i; with a
\* difficulty file every entry is counted in the band of its label and in no
\* other, so the three band counts sum to the number of entries labelled
\* simple, moderate or challenging, and when the file has one entry per
\* result that sum is at most the number of results, with equality if and
\* only if every label is one of the three; without a difficulty file each of
\* the three band counts is the number of results.
C30_BandCountsFollowLabels ==
    mainpc = "scored" =>
        /\ ResultsInPlace
        /\ score.count_lists[4] = Len(exec_result)
        /\ diff_json.some =>
              /\ score.count_lists[1] = Cardinality(LabelledWith("simple"))
              /\ score.count_lists[2] = Cardinality(LabelledWith("moderate"))
              /\ score.count_lists[3] = Cardinality(LabelledWith("challenging"))
              /\ BandCountSum = Cardinality({i \in 1..Len(Labels) : Labels[i] \in Bands})
              /\ Len(Labels) = Len(exec_result) =>
                    /\ BandCountSum <= Len(exec_result)
                    /\ BandCountSum = Len(exec_result) <=> AllLabelsAreBands
        /\ ~diff_json.some =>
              \A b \in 1..3 : score.count_lists[b] = Len(exec_result)

\* C30 witness: a full batch scored with one label per result, two of them
\* in different bands and one outside the three bands.
C30_Witness ==
    /\ mainpc = "scored"
    /\ n = MaxTasks
    /\ diff_json.some
    /\ Len(Labels) = n
    /\ \E i \in 1..n : Labels[i] \notin Bands
    /\ BandCountSum = n - 1
    /\ score.count_lists[1] = 1
    /\ score.count_lists[3] = 1

====
